---------------------------- MODULE Spec2Model ----------------------------
(***************************************************************************)
(* Cube puzzle (nicovince/cube-puzzle): the vector type of coords.py, the  *)
(* Block / Piece5 / PiecePositions classes of piece.py and the mount and   *)
(* unmount solvers of solve.py, as state machines.                         *)
(*                                                                         *)
(* Python values are represented as follows.                               *)
(*   Coords3D(x, y, z)   the tuple <<x, y, z>>                             *)
(*   None                the empty tuple <<>>                              *)
(*   an optional object  <<>> (None) or the one-element tuple <<object>>   *)
(*   a list              a sequence                                        *)
(*   a raised exception  the field exc of the result record of a call      *)
(***************************************************************************)
EXTENDS Integers, Sequences, FiniteSets, TLC

VARIABLES
    pc,             \* position of the running function
    catalog,        \* the list of pieces the mount solver was started on
    puzzle,         \* solve.py: puzzle, the list of placed / active pieces
    unused_pieces,  \* solve.py: unused_pieces, the stack of pieces to place
    new_piece,      \* add_piece: the piece popped from unused_pieces
    i,              \* mount_puzzle: the iteration counter i
    positions,      \* the PiecePositions object being iterated
    produced,       \* the pieces returned so far by next(positions)
    pieces_out,     \* umount_puzzle: pieces_out
    steps,          \* umount_puzzle: steps
    step_ret        \* umount_puzzle: (unit_dir, trans_cnt, piece_moved)

vars == <<pc, catalog, puzzle, unused_pieces, new_piece, i, positions,
          produced, pieces_out, steps, step_ret>>

None == <<>>

---------------------------------------------------------------------------
(* coords.py: Coords3D *)

Coords3D(x, y, z) == <<x, y, z>>

add(self, other) == <<self[1] + other[1], self[2] + other[2], self[3] + other[3]>>

mul(self, other) == <<self[1] * other, self[2] * other, self[3] * other>>

neg(self) == <<-self[1], -self[2], -self[3]>>

Coords3D_is_within(self, start, end) ==
    /\ self[1] >= start[1] /\ self[1] <= end[1]
    /\ self[2] >= start[2] /\ self[2] <= end[2]
    /\ self[3] >= start[3] /\ self[3] <= end[3]

Sign(v) == IF v > 0 THEN 1 ELSE IF v < 0 THEN -1 ELSE 0

\* get_direction without the asserts on dir_y in the branches of z
get_direction_YNotChecked(self) ==
    LET dir_x == Sign(self[1])
        dir_y == Sign(self[2])
        dir_z == Sign(self[3])
    IN  IF \/ (dir_y # 0 /\ dir_x # 0)
           \/ (dir_z # 0 /\ dir_x # 0)
        THEN [exc |-> "AssertionError", value |-> None]
        ELSE [exc |-> "none", value |-> <<dir_x, dir_y, dir_z>>]

\* get_direction: the sign vector; the asserts fail when a second component
\* is non-zero after a non-zero x (or a non-zero z after a non-zero y).
get_direction(self) ==
    LET dir_x == Sign(self[1])
        dir_y == Sign(self[2])
        dir_z == Sign(self[3])
    IN  IF \/ (dir_y # 0 /\ dir_x # 0)
           \/ (dir_z # 0 /\ (dir_x # 0 \/ dir_y # 0))
        THEN [exc |-> "AssertionError", value |-> None]
        ELSE [exc |-> "none", value |-> <<dir_x, dir_y, dir_z>>]

\* rot90_x assigning self.z from the already updated self.y
rot90_x_NoTemp(self) == <<self[1], -self[3], -self[3]>>

rot90_x(self) == <<self[1], -self[3], self[2]>>

rot90_y(self) == <<self[3], self[2], -self[1]>>

rot90_z(self) == <<-self[2], self[1], self[3]>>

---------------------------------------------------------------------------
(* piece.py: Block *)

Block(pos, grid_5) == [pos |-> pos, grid_5 |-> grid_5]

B5(x, y, z) == Block(Coords3D(x, y, z), TRUE)

B3(x, y, z) == Block(Coords3D(x, y, z), FALSE)

\* Block.is_valid taking the side length 5 for the last index
Block_is_valid_SideLength(self) ==
    LET bb_start == Coords3D(0, 0, 0)
        bb_end == IF ~self.grid_5 THEN Coords3D(3, 3, 3) ELSE Coords3D(5, 5, 5)
    IN  Coords3D_is_within(self.pos, bb_start, bb_end)

Block_is_valid(self) ==
    LET bb_start == Coords3D(0, 0, 0)
        bb_end == IF ~self.grid_5 THEN Coords3D(2, 2, 2) ELSE Coords3D(4, 4, 4)
    IN  Coords3D_is_within(self.pos, bb_start, bb_end)

Block_collides(self, other) == self.pos = other.pos

---------------------------------------------------------------------------
(* piece.py: Piece5.  blocks is a list of Blocks, beams a list of lists of *)
(* Blocks, iterator an optional PiecePositions.  umount_trans_history and  *)
(* np_blbe are the attributes solve.py reads and that piece.py's callers   *)
(* set: the list of translations applied while unmounting and the set of   *)
(* voxels of the last compute_np.                                          *)

Piece5(blocks, beams, name) ==
    [name |-> name, blocks |-> blocks, beams |-> beams, iterator |-> None,
     umount_trans_history |-> <<>>, np_blbe |-> {}]

\* the positions of the standalone blocks / of the blocks of all beams
BlockCells(p) == {p.blocks[k].pos : k \in DOMAIN p.blocks}

BeamCells(p) ==
    UNION {{p.beams[j][k].pos : k \in DOMAIN p.beams[j]} : j \in DOMAIN p.beams}

Piece5_is_valid(self) ==
    /\ \A k \in DOMAIN self.blocks : Block_is_valid(self.blocks[k])
    /\ \A j \in DOMAIN self.beams :
          \A k \in DOMAIN self.beams[j] : Block_is_valid(self.beams[j][k])

\* Piece5.collides also testing the blocks of self against the beam blocks
\* of other, and not the other way round
Piece5_collides_BlocksOnBeams(self, other) ==
    \/ \E a \in DOMAIN self.blocks, b \in DOMAIN other.blocks :
          Block_collides(self.blocks[a], other.blocks[b])
    \/ \E j \in DOMAIN self.beams, m \in DOMAIN other.beams :
          \E a \in DOMAIN self.beams[j], b \in DOMAIN other.beams[m] :
              Block_collides(self.beams[j][a], other.beams[m][b])
    \/ \E a \in DOMAIN self.blocks, m \in DOMAIN other.beams :
          \E b \in DOMAIN other.beams[m] :
              Block_collides(self.blocks[a], other.beams[m][b])

Piece5_collides(self, other) ==
    \/ \E a \in DOMAIN self.blocks, b \in DOMAIN other.blocks :
          Block_collides(self.blocks[a], other.blocks[b])
    \/ \E j \in DOMAIN self.beams, m \in DOMAIN other.beams :
          \E a \in DOMAIN self.beams[j], b \in DOMAIN other.beams[m] :
              Block_collides(self.beams[j][a], other.beams[m][b])

Piece5_rot90_x(self) ==
    [self EXCEPT
        !.blocks = [k \in DOMAIN self.blocks |->
                       [self.blocks[k] EXCEPT !.pos = rot90_x(@)]],
        !.beams = [j \in DOMAIN self.beams |->
                      [k \in DOMAIN self.beams[j] |->
                          [self.beams[j][k] EXCEPT !.pos = rot90_x(@)]]]]

Piece5_rot90_y(self) ==
    [self EXCEPT
        !.blocks = [k \in DOMAIN self.blocks |->
                       [self.blocks[k] EXCEPT !.pos = rot90_y(@)]],
        !.beams = [j \in DOMAIN self.beams |->
                      [k \in DOMAIN self.beams[j] |->
                          [self.beams[j][k] EXCEPT !.pos = rot90_y(@)]]]]

Piece5_rot90_z(self) ==
    [self EXCEPT
        !.blocks = [k \in DOMAIN self.blocks |->
                       [self.blocks[k] EXCEPT !.pos = rot90_z(@)]],
        !.beams = [j \in DOMAIN self.beams |->
                      [k \in DOMAIN self.beams[j] |->
                          [self.beams[j][k] EXCEPT !.pos = rot90_z(@)]]]]

\* Piece5.translate leaving out the loop over self.beams
Piece5_translate_BlocksOnly(self, vect) ==
    [self EXCEPT
        !.blocks = [k \in DOMAIN self.blocks |->
                       [self.blocks[k] EXCEPT !.pos = add(@, vect)]]]

Piece5_translate(self, vect) ==
    [self EXCEPT
        !.blocks = [k \in DOMAIN self.blocks |->
                       [self.blocks[k] EXCEPT !.pos = add(@, vect)]],
        !.beams = [j \in DOMAIN self.beams |->
                      [k \in DOMAIN self.beams[j] |->
                          [self.beams[j][k] EXCEPT !.pos = add(@, vect)]]]]

RECURSIVE Repeat(_, _, _)
\* for _ in range(n): self = f(self), f being 1: rot90_x, 2: rot90_y, 3: rot90_z
Repeat(axis, n, self) ==
    IF n <= 0 THEN self
    ELSE Repeat(axis, n - 1,
                CASE axis = 1 -> Piece5_rot90_x(self)
                  [] axis = 2 -> Piece5_rot90_y(self)
                  [] OTHER -> Piece5_rot90_z(self))

Piece5_rotate(self, rot_cnt) ==
    Repeat(3, rot_cnt[3], Repeat(2, rot_cnt[2], Repeat(1, rot_cnt[1], self)))

movement(self, trans, rot) == Piece5_translate(Piece5_rotate(self, rot), trans)

MinStart == 2000

Min2(a, b) == IF a < b THEN a ELSE b

RECURSIVE MinOver(_, _, _, _)
\* the running minimum of one coordinate over a list of blocks
MinOver(blks, k, axis, acc) ==
    IF k > Len(blks) THEN acc
    ELSE MinOver(blks, k + 1, axis, Min2(acc, blks[k].pos[axis]))

RECURSIVE Flatten(_, _)
\* [blk for beam in beams for blk in beam], from beam j on
Flatten(beams, j) ==
    IF j > Len(beams) THEN <<>> ELSE beams[j] \o Flatten(beams, j + 1)

\* get_movement_to_start_pos returning the minimum corner itself
get_movement_to_start_pos_NotNegated(self) ==
    LET blocks == self.blocks \o Flatten(self.beams, 1)
        x == MinOver(blocks, 1, 1, MinStart)
        y == MinOver(blocks, 1, 2, MinStart)
        z == MinOver(blocks, 1, 3, MinStart)
    IN  Coords3D(x, y, z)

get_movement_to_start_pos(self) ==
    LET blocks == self.blocks \o Flatten(self.beams, 1)
        x == MinOver(blocks, 1, 1, MinStart)
        y == MinOver(blocks, 1, 2, MinStart)
        z == MinOver(blocks, 1, 3, MinStart)
    IN  Coords3D(-x, -y, -z)

---------------------------------------------------------------------------
(* piece.py: PiecePositions, the iterator over the positions of a piece *)

PiecePositions(piece) ==
    [piece |-> piece,
     offset |-> get_movement_to_start_pos(piece),
     rot_state |-> <<0, 0, 0>>,
     trans_state |-> Coords3D(0, 0, 0)]

PiecePositions_iter(self) ==
    [self EXCEPT !.rot_state = <<0, 0, 0>>, !.trans_state = Coords3D(0, 0, 0)]

\* search_next, a translation step: tmp.movement(next_trans + next_offset,
\* next_rot) followed by tmp.is_valid()
TranslationFits(self, next_trans) ==
    Piece5_is_valid(movement(self.piece, add(next_trans, self.offset),
                             self.rot_state))

\* search_next, a rotation step: with tmp the rotated copy and next_offset
\* its movement to the start position, next_rot is returned when the moved
\* copy is valid and the count of the axis is below 4; otherwise the
\* function goes on with the steps that follow
RotationResult(tmp, next_offset, next_trans, next_rot, axis, otherwise) ==
    IF Piece5_is_valid(Piece5_translate(tmp, next_offset)) /\ next_rot[axis] < 4
    THEN <<next_offset, next_trans, next_rot>>
    ELSE otherwise

RotationTmp(tmp, next_trans, next_rot, axis, otherwise) ==
    RotationResult(tmp, get_movement_to_start_pos(tmp), next_trans, next_rot,
                   axis, otherwise)

RotationStep(self, next_trans, next_rot, axis, otherwise) ==
    RotationTmp(Piece5_rotate(self.piece, next_rot), next_trans, next_rot,
                axis, otherwise)

\* search_next without next_trans.x = 0 before the Y translation
search_next_XNotReset(self) ==
    LET rot0 == self.rot_state
        trans_x == add(self.trans_state, Coords3D(1, 0, 0))
        trans_y == add(trans_x, Coords3D(0, 1, 0))
        trans_z == add(<<trans_y[1], 0, trans_y[3]>>, Coords3D(0, 0, 1))
        trans_r == <<trans_z[1], trans_z[2], 0>>
        rot_x == <<rot0[1] + 1, rot0[2], rot0[3]>>
        rot_y == <<0, rot_x[2] + 1, rot_x[3]>>
        rot_z == <<rot_y[1], 0, rot_y[3] + 1>>
    IN  IF TranslationFits(self, trans_x) THEN <<self.offset, trans_x, rot0>>
        ELSE IF TranslationFits(self, trans_y) THEN <<self.offset, trans_y, rot0>>
        ELSE IF TranslationFits(self, trans_z) THEN <<self.offset, trans_z, rot0>>
        ELSE RotationStep(self, trans_r, rot_x, 1,
                 RotationStep(self, trans_r, rot_y, 2,
                     RotationStep(self, trans_r, rot_z, 3,
                         <<None, None, None>>)))

\* search_next returns (next_offset, next_trans, next_rot)
search_next(self) ==
    LET rot0 == self.rot_state
        trans_x == add(self.trans_state, Coords3D(1, 0, 0))
        trans_y == add(<<0, trans_x[2], trans_x[3]>>, Coords3D(0, 1, 0))
        trans_z == add(<<trans_y[1], 0, trans_y[3]>>, Coords3D(0, 0, 1))
        trans_r == <<trans_z[1], trans_z[2], 0>>
        rot_x == <<rot0[1] + 1, rot0[2], rot0[3]>>
        rot_y == <<0, rot_x[2] + 1, rot_x[3]>>
        rot_z == <<rot_y[1], 0, rot_y[3] + 1>>
    IN  IF TranslationFits(self, trans_x) THEN <<self.offset, trans_x, rot0>>
        ELSE IF TranslationFits(self, trans_y) THEN <<self.offset, trans_y, rot0>>
        ELSE IF TranslationFits(self, trans_z) THEN <<self.offset, trans_z, rot0>>
        ELSE RotationStep(self, trans_r, rot_x, 1,
                 RotationStep(self, trans_r, rot_y, 2,
                     RotationStep(self, trans_r, rot_z, 3,
                         <<None, None, None>>)))

\* __next__ once the next state nxt is known
NextResult(self, piece, nxt) ==
    [exc |-> "none", piece |-> piece,
     it |-> [self EXCEPT !.offset = nxt[1], !.trans_state = nxt[2],
                         !.rot_state = nxt[3]]]

\* __next__ putting the iterator back at its first state when it raises
\* StopIteration
PiecePositions_next_Rewind(self) ==
    IF self.trans_state = None \/ self.rot_state = None
    THEN [exc |-> "StopIteration", piece |-> None,
          it |-> PiecePositions_iter(PiecePositions(self.piece))]
    ELSE IF self.offset = None
    THEN [exc |-> "AssertionError", piece |-> None, it |-> self]
    ELSE NextResult(self,
                    Piece5_translate(
                        Piece5_translate(
                            Piece5_rotate(self.piece, self.rot_state),
                            self.offset),
                        self.trans_state),
                    search_next(self))

\* __next__: the piece at the current state, and the iterator moved to the
\* next state.  translate(None) fails the isinstance assert of
\* Coords3D.translate.
PiecePositions_next(self) ==
    IF self.trans_state = None \/ self.rot_state = None
    THEN [exc |-> "StopIteration", piece |-> None, it |-> self]
    ELSE IF self.offset = None
    THEN [exc |-> "AssertionError", piece |-> None, it |-> self]
    ELSE NextResult(self,
                    Piece5_translate(
                        Piece5_translate(
                            Piece5_rotate(self.piece, self.rot_state),
                            self.offset),
                        self.trans_state),
                    search_next(self))

\* next_pos once next(self.iterator) has returned or raised: r
NextPosResult(self, r) ==
    IF r.exc # "none"
    THEN [exc |-> r.exc, piece |-> [self EXCEPT !.iterator = <<r.it>>]]
    ELSE [exc |-> "none",
          piece |-> [self EXCEPT !.iterator = <<r.it>>,
                                 !.blocks = r.piece.blocks,
                                 !.beams = r.piece.beams]]

\* Piece5.next_pos: creates the iterator on first use, then takes over the
\* blocks and beams of the next position.
next_pos(self) ==
    NextPosResult(self,
                  PiecePositions_next(
                      IF self.iterator = None
                      THEN PiecePositions_iter(PiecePositions(self))
                      ELSE self.iterator[1]))

\* the piece with a restarted enumerator it, at the first position of it
ResetTo(self, it) ==
    [self EXCEPT !.iterator = <<it>>,
                 !.blocks = Piece5_translate(it.piece, it.offset).blocks,
                 !.beams = Piece5_translate(it.piece, it.offset).beams]

\* Piece5.reset: the piece back at its first enumerated position with its
\* enumerator back at the start.
reset(self) ==
    IF self.iterator = None THEN self
    ELSE ResetTo(self, PiecePositions_iter(PiecePositions(self.iterator[1].piece)))

---------------------------------------------------------------------------
(* piece.py: get_pieces5, the catalog of the eight pieces on the 5x5x5 grid *)

get_pieces5 ==
    LET p1 == Piece5(<<B5(2, 0, 0), B5(2, 0, 2), B5(4, 0, 2)>>,
                        <<<<B5(0, 0, 1), B5(1, 0, 1), B5(2, 0, 1), B5(3, 0, 1), B5(4, 0, 1)>>,
                          <<B5(2, 1, 0), B5(2, 1, 1), B5(2, 1, 2), B5(2, 1, 3), B5(2, 1, 4)>>>>,
                        "P1")
        p2 == Piece5(<<B5(0, 0, 0), B5(0, 0, 2), B5(4, 0, 0), B5(4, 0, 2)>>,
                        <<<<B5(0, 0, 1), B5(1, 0, 1), B5(2, 0, 1), B5(3, 0, 1), B5(4, 0, 1)>>,
                          <<B5(1, 0, 1)>>,
                          <<B5(0, 1, 0), B5(0, 1, 1), B5(0, 1, 2), B5(0, 1, 3), B5(0, 1, 4)>>>>,
                        "P2")
        p3 == Piece5(<<B5(2, 0, 0), B5(4, 2, 0), B5(0, 0, 4), B5(2, 0, 4)>>,
                        <<<<B5(1, 0, 0), B5(1, 0, 1), B5(1, 0, 2), B5(1, 0, 3), B5(1, 0, 4)>>,
                          <<B5(0, 1, 0), B5(1, 1, 0), B5(2, 1, 0), B5(3, 1, 0), B5(4, 1, 0)>>>>,
                        "P3")
        p4 == Piece5(<<B5(2, 0, 0), B5(0, 0, 4)>>,
                        <<<<B5(1, 0, 0), B5(1, 0, 1), B5(1, 0, 2), B5(1, 0, 3), B5(1, 0, 4)>>,
                          <<B5(0, 1, 4), B5(1, 1, 4), B5(2, 1, 4), B5(3, 1, 4), B5(4, 1, 4)>>>>,
                        "P4")
        p5 == Piece5(<<B5(0, 0, 0), B5(2, 0, 0), B5(4, 2, 0), B5(2, 0, 4)>>,
                        <<<<B5(1, 0, 0), B5(1, 0, 1), B5(1, 0, 2), B5(1, 0, 3), B5(1, 0, 4)>>,
                          <<B5(0, 1, 0), B5(1, 1, 0), B5(2, 1, 0), B5(3, 1, 0), B5(4, 1, 0)>>>>,
                        "P5")
        p6 == Piece5(<<B5(0, 2, 0), B5(4, 2, 0), B5(0, 0, 2)>>,
                        <<<<B5(0, 1, 0), B5(1, 1, 0), B5(2, 1, 0), B5(3, 1, 0), B5(4, 1, 0)>>,
                          <<B5(0, 0, 1), B5(0, 1, 1), B5(0, 2, 1), B5(0, 3, 1), B5(0, 4, 1)>>>>,
                        "P6")
        p7 == Piece5(<<B5(0, 0, 0), B5(4, 0, 0), B5(4, 0, 2), B5(4, 2, 4)>>,
                        <<<<B5(0, 0, 1), B5(1, 0, 1), B5(2, 0, 1), B5(3, 0, 1), B5(4, 0, 1)>>,
                          <<B5(4, 0, 1)>>,
                          <<B5(4, 1, 0), B5(4, 1, 1), B5(4, 1, 2), B5(4, 1, 3), B5(4, 1, 4)>>>>,
                        "P7")
        p8 == Piece5(<<B5(0, 0, 0), B5(0, 2, 0)>>,
                        <<<<B5(1, 0, 0), B5(1, 1, 0), B5(1, 2, 0), B5(1, 3, 0), B5(1, 4, 0)>>,
                          <<B5(0, 1, 0), B5(0, 1, 1), B5(0, 1, 2), B5(0, 1, 3), B5(0, 1, 4)>>,
                          <<B5(0, 2, 1), B5(1, 2, 1), B5(2, 2, 1), B5(3, 2, 1), B5(4, 2, 1)>>>>,
                        "P8")
    IN  <<p1, p2, p3, p4, p5, p6, p7, p8>>

---------------------------------------------------------------------------
(* Enumeration of the positions of one catalog piece, as piece.py's main   *)
(* does: for p_pos in iter(PiecePositions(piece)).                         *)

EnumInit ==
    /\ pc = "enum"
    /\ catalog = get_pieces5
    /\ \E k \in DOMAIN get_pieces5 :
          positions = <<PiecePositions_iter(PiecePositions(get_pieces5[k]))>>
    /\ produced = <<>>
    /\ puzzle = <<>>
    /\ unused_pieces = <<>>
    /\ new_piece = None
    /\ i = 0
    /\ pieces_out = <<>>
    /\ steps = <<>>
    /\ step_ret = None

\* the for loop receives the piece next(positions) returned
EnumReturned(r) ==
    /\ r.exc = "none"
    /\ produced' = Append(produced, r.piece)
    /\ positions' = <<r.it>>

\* next(positions) returns a piece
EnumNext ==
    /\ pc = "enum"
    /\ EnumReturned(PiecePositions_next(positions[1]))
    /\ UNCHANGED <<pc, catalog, puzzle, unused_pieces, new_piece, i,
                   pieces_out, steps, step_ret>>

\* next(positions) raises StopIteration: the for loop ends
EnumStop ==
    /\ pc = "enum"
    /\ PiecePositions_next(positions[1]).exc = "StopIteration"
    /\ pc' = "enum_stop"
    /\ UNCHANGED <<catalog, puzzle, unused_pieces, new_piece, i, positions,
                   produced, pieces_out, steps, step_ret>>

EnumNextStep == EnumNext \/ EnumStop

EnumSpec == EnumInit /\ [][EnumNextStep]_vars

---------------------------------------------------------------------------
(* The enumeration loop entered again on the same PiecePositions object:
   iter(positions) after a pass that was left early or ran to exhaustion. *)

\* the number of states of the second pass the model follows
MaxRestartLen == 3

\* iter(positions) on the enumerator in use: __iter__ returns self;
\* step_ret keeps whether the first pass had ended
Reiterate ==
    /\ pc \in {"enum", "enum_stop"}
    /\ positions' = <<PiecePositions_iter(positions[1])>>
    /\ produced' = <<>>
    /\ step_ret' = <<pc>>
    /\ pc' = "reenum"
    /\ UNCHANGED <<catalog, puzzle, unused_pieces, new_piece, i, pieces_out,
                   steps>>

\* next(positions) returns a piece in the second pass
ReenumNext ==
    /\ pc = "reenum"
    /\ Len(produced) < MaxRestartLen
    /\ EnumReturned(PiecePositions_next(positions[1]))
    /\ UNCHANGED <<pc, catalog, puzzle, unused_pieces, new_piece, i,
                   pieces_out, steps, step_ret>>

\* next(positions) raises in the second pass
ReenumRaised ==
    /\ pc = "reenum"
    /\ Len(produced) < MaxRestartLen
    /\ PiecePositions_next(positions[1]).exc # "none"
    /\ pc' = PiecePositions_next(positions[1]).exc
    /\ UNCHANGED <<catalog, puzzle, unused_pieces, new_piece, i, positions,
                   produced, pieces_out, steps, step_ret>>

RestartNext == EnumNext \/ EnumStop \/ Reiterate \/ ReenumNext \/ ReenumRaised

RestartSpec == EnumInit /\ [][RestartNext]_vars

---------------------------------------------------------------------------
(* Properties of the Position Enumerator *)

GridMax == 4

\* the voxels of the 5x5x5 target box
Box5 == (0..GridMax) \X (0..GridMax) \X (0..GridMax)

\* a translation component that can bring a rotated catalog piece, whose
\* coordinates lie in -GridMax..GridMax, into the box
TransRange == (0 - GridMax)..(2 * GridMax)

Rotations == (0..3) \X (0..3) \X (0..3)

Cells(p) == BlockCells(p) \cup BeamCells(p)

\* a piece state compared by content: its block positions and its beam
\* block positions
Key(p) == <<BlockCells(p), BeamCells(p)>>

ProducedKeys == {Key(produced[k]) : k \in DOMAIN produced}

\* the placements of piece p inside the box: p rotated by rot (x, then y,
\* then z) and then translated
PlacementKeys(p) ==
    UNION {LET q == Piece5_rotate(p, rot)
               cells == Cells(q)
               T == {t \in TransRange \X TransRange \X TransRange :
                        \A c \in cells : add(c, t) \in Box5}
           IN  {Key(Piece5_translate(q, t)) : t \in T} : rot \in Rotations}

\* C5: when the enumerator of a catalog piece is exhausted, every placement
\* of the piece inside the 5x5x5 box (any rotation triple in {0..3}^3
\* followed by any translation) is among the states it produced.
C5_Coverage ==
    pc = "enum_stop" => PlacementKeys(positions[1].piece) \subseteq ProducedKeys

\* C5 witness: the enumerator of P1 ran to exhaustion after producing states
\* of the last rotation triple (3, 3, 3).
C5_Witness ==
    /\ pc = "enum_stop"
    /\ positions[1].piece.name = "P1"
    /\ Key(Piece5_translate(
               Piece5_rotate(positions[1].piece, <<3, 3, 3>>),
               get_movement_to_start_pos(
                   Piece5_rotate(positions[1].piece, <<3, 3, 3>>))))
           \in ProducedKeys

\* C6: no two states of one enumeration pass have the same block positions
\* and beam block positions.
C6_NoDuplicates ==
    \A a, b \in DOMAIN produced :
        a < b => Key(produced[a]) # Key(produced[b])

\* C7: every state the enumerator produced, the first included, has every
\* standalone block and every beam block inside the target box.
C7_ProducedValid ==
    \A k \in DOMAIN produced : Cells(produced[k]) \subseteq Box5

\* C7 witness: the enumerator has produced its first state and states with
\* a rotation and a non-zero translation.
C7_Witness ==
    /\ pc = "enum"
    /\ Len(produced) > 1
    /\ positions[1].rot_state # None
    /\ positions[1].rot_state # <<0, 0, 0>>
    /\ positions[1].trans_state # <<0, 0, 0>>

RECURSIVE NthState(_, _)
\* the n-th state the enumerator it produces, from its current state on
NthState(it, n) ==
    IF n = 1 THEN PiecePositions_next(it).piece
    ELSE NthState(PiecePositions_next(it).it, n - 1)

\* a freshly created enumerator for the piece of the enumerator it
Fresh(it) == PiecePositions_iter(PiecePositions(it.piece))

\* C15: after iter() on an enumerator whose pass was left early or ran to
\* exhaustion, the states it produces are those of a freshly created
\* enumerator for the same piece, in the same order, and next() does not
\* fail.
C15_Restartable ==
    /\ pc = "reenum" =>
          \A k \in DOMAIN produced :
              produced[k] = NthState(Fresh(positions[1]), k)
    /\ pc # "AssertionError"

\* x is None or a vector with even components
EvenOrNone(x) == x = None \/ \A k \in 1..3 : x[k] % 2 = 0

\* C16: the in-flight translation of every state of the enumerator
\* (trans_state, the translation of the state next() produces next) has
\* only even components.
C16_EvenTranslations ==
    pc = "enum" => EvenOrNone(positions[1].trans_state)

\* the standalone blocks of p followed by the blocks of its beams
AllBlocks(p) == p.blocks \o Flatten(p.beams, 1)

\* no two Blocks of p are on the same voxel
VoxelsDistinct(p) ==
    \A a, b \in DOMAIN AllBlocks(p) :
        a # b => AllBlocks(p)[a].pos # AllBlocks(p)[b].pos

\* C18: in every piece of the catalog get_pieces5 and in every state its
\* enumerator produces (rotations and translations of it), no two Blocks
\* of the piece, standalone or in a beam, are on the same voxel.
C18_ShapeInvariant ==
    /\ \A k \in DOMAIN catalog : VoxelsDistinct(catalog[k])
    /\ \A k \in DOMAIN produced : VoxelsDistinct(produced[k])

---------------------------------------------------------------------------
(* solve.py: the mount solver.  mount_puzzle runs add_piece and backtrack  *)
(* on get_pieces5(); both functions take the two lists as arguments, and   *)
(* the model also runs the loop on small lists of pieces.                  *)

\* two pieces that span the 3x3x3 box and both hold its centre: they collide
\* in every position
UnsolvablePieces ==
    <<Piece5(<<B3(0, 0, 0), B3(1, 1, 1), B3(2, 2, 2)>>, <<>>, "A2"),
      Piece5(<<B3(2, 0, 0), B3(1, 1, 1), B3(0, 2, 2)>>, <<>>, "A1")>>

\* B1, a single block, starts on a corner; B2 holds the eight corners in
\* every position: B1 has to be moved by a backtrack before B2 fits
BacktrackPieces ==
    <<Piece5(<<B3(0, 0, 0), B3(2, 0, 0), B3(0, 2, 0), B3(2, 2, 0),
               B3(0, 0, 2), B3(2, 0, 2), B3(0, 2, 2), B3(2, 2, 2)>>,
             <<>>, "B2"),
      Piece5(<<B3(0, 0, 0)>>, <<>>, "B1")>>

\* D1, a single block, starts on the middle of an edge; D2 has only beam
\* blocks; D3 holds the twelve edge middles in every position: D2 runs out
\* of positions in backtrack before D1 is moved
DeepBacktrackPieces ==
    <<Piece5(<<B3(1, 0, 0), B3(0, 1, 0), B3(2, 1, 0), B3(1, 2, 0),
               B3(0, 0, 1), B3(2, 0, 1), B3(0, 2, 1), B3(2, 2, 1),
               B3(1, 0, 2), B3(0, 1, 2), B3(2, 1, 2), B3(1, 2, 2)>>,
             <<>>, "D3"),
      Piece5(<<>>, <<<<B3(0, 0, 0), B3(1, 0, 0)>>, <<B3(2, 2, 2)>>>>, "D2"),
      Piece5(<<B3(1, 0, 0)>>, <<>>, "D1")>>

SmallInputs == {UnsolvablePieces, BacktrackPieces, DeepBacktrackPieces}

MountInputs == SmallInputs \cup {get_pieces5}

\* the number of iterations of the loop of mount_puzzle the model follows
MaxIter == 140

piece_collides_with_others(one, others) ==
    \E k \in DOMAIN others : Piece5_collides(others[k], one)

Pop(list) == SubSeq(list, 1, Len(list) - 1)

Top(list) == list[Len(list)]

MountInit ==
    /\ pc = "loop"
    /\ catalog \in MountInputs
    /\ unused_pieces = catalog
    /\ puzzle = <<>>
    /\ new_piece = None
    /\ i = 0
    /\ positions = None
    /\ produced = <<>>
    /\ pieces_out = <<>>
    /\ steps = <<>>
    /\ step_ret = None

\* next_pos() returned (r.exc = "none") in add_piece: the loop goes on with
\* the moved piece
AddPieceMoved(r) ==
    /\ r.exc = "none"
    /\ new_piece' = <<r.piece>>

\* backtrack appending the piece as it was popped, not as next_pos() left it
BacktrackMoved_NotAdvanced(r) ==
    /\ r.exc = "none"
    /\ unused_pieces' = Append(unused_pieces, Top(puzzle))

\* backtrack leaving out unused_pieces.append(rm_piece) after next_pos()
BacktrackMoved_NoAppend(r) ==
    /\ r.exc = "none"
    /\ unused_pieces' = unused_pieces

\* next_pos() returned in backtrack: the moved piece goes back on the stack
BacktrackMoved(r) ==
    /\ r.exc = "none"
    /\ unused_pieces' = Append(unused_pieces, r.piece)

\* the except clause putting the piece at the bottom of unused_pieces
\* (insert(0, ...)) instead of appending it
PutBack_Bottom(r) ==
    /\ r.exc # "none"
    /\ IF r.exc = "StopIteration"
       THEN /\ unused_pieces' = <<reset(r.piece)>> \o unused_pieces
            /\ pc' = "backtrack"
       ELSE /\ unused_pieces' = unused_pieces
            /\ pc' = r.exc

\* except StopIteration, in add_piece and in backtrack: the piece is reset
\* and appended to unused_pieces, and backtrack is called; any other
\* exception ends the program
PutBack(r) ==
    /\ r.exc # "none"
    /\ IF r.exc = "StopIteration"
       THEN /\ unused_pieces' = Append(unused_pieces, reset(r.piece))
            /\ pc' = "backtrack"
       ELSE /\ unused_pieces' = unused_pieces
            /\ pc' = r.exc

\* while len(unused_pieces) > 0: add_piece: new_piece = unused_pieces.pop()
AddPiecePop ==
    /\ pc = "loop"
    /\ Len(unused_pieces) > 0
    /\ i < MaxIter
    /\ new_piece' = <<Top(unused_pieces)>>
    /\ unused_pieces' = Pop(unused_pieces)
    /\ pc' = "add_piece"
    /\ UNCHANGED <<catalog, puzzle, i, positions, produced, pieces_out, steps,
                   step_ret>>

\* add_piece: the piece collides and next_pos() moves it to its next position
AddPieceNextPos ==
    /\ pc = "add_piece"
    /\ piece_collides_with_others(new_piece[1], puzzle) = TRUE
    /\ AddPieceMoved(next_pos(new_piece[1]))
    /\ UNCHANGED <<pc, catalog, puzzle, unused_pieces, i, positions, produced,
                   pieces_out, steps, step_ret>>

\* add_piece: the piece collides and next_pos() raises StopIteration: the
\* piece is reset and put back, add_piece returns False and mount_puzzle
\* calls backtrack
AddPieceFail ==
    /\ pc = "add_piece"
    /\ piece_collides_with_others(new_piece[1], puzzle) = TRUE
    /\ PutBack(next_pos(new_piece[1]))
    /\ new_piece' = None
    /\ UNCHANGED <<catalog, puzzle, i, positions, produced, pieces_out, steps,
                   step_ret>>

\* add_piece putting the piece first in puzzle (insert(0, ...)) instead of
\* appending it
AddPieceOk_Front ==
    /\ pc = "add_piece"
    /\ piece_collides_with_others(new_piece[1], puzzle) = FALSE
    /\ puzzle' = <<new_piece[1]>> \o puzzle
    /\ new_piece' = None
    /\ i' = i + 1
    /\ pc' = "loop"
    /\ UNCHANGED <<catalog, unused_pieces, positions, produced, pieces_out,
                   steps, step_ret>>

\* add_piece: no collision: the piece is appended, add_piece returns True
AddPieceOk ==
    /\ pc = "add_piece"
    /\ piece_collides_with_others(new_piece[1], puzzle) = FALSE
    /\ puzzle' = Append(puzzle, new_piece[1])
    /\ new_piece' = None
    /\ i' = i + 1
    /\ pc' = "loop"
    /\ UNCHANGED <<catalog, unused_pieces, positions, produced, pieces_out,
                   steps, step_ret>>

\* backtrack: the last placed piece is popped and has a next position
BacktrackNextPos ==
    /\ pc = "backtrack"
    /\ Len(puzzle) > 0
    /\ BacktrackMoved(next_pos(Top(puzzle)))
    /\ puzzle' = Pop(puzzle)
    /\ i' = i + 1
    /\ pc' = "loop"
    /\ UNCHANGED <<catalog, new_piece, positions, produced, pieces_out, steps,
                   step_ret>>

\* backtrack: the popped piece has no next position: it is reset, put back,
\* and backtrack calls itself
BacktrackExhausted ==
    /\ pc = "backtrack"
    /\ Len(puzzle) > 0
    /\ PutBack(next_pos(Top(puzzle)))
    /\ puzzle' = Pop(puzzle)
    /\ UNCHANGED <<catalog, new_piece, i, positions, produced, pieces_out,
                   steps, step_ret>>

\* backtrack called with an empty puzzle: puzzle.pop() raises IndexError
BacktrackEmpty ==
    /\ pc = "backtrack"
    /\ Len(puzzle) = 0
    /\ pc' = "IndexError"
    /\ UNCHANGED <<catalog, puzzle, unused_pieces, new_piece, i, positions,
                   produced, pieces_out, steps, step_ret>>

\* the while loop ends: print("done")
MountDone ==
    /\ pc = "loop"
    /\ Len(unused_pieces) = 0
    /\ pc' = "done"
    /\ UNCHANGED <<catalog, puzzle, unused_pieces, new_piece, i, positions,
                   produced, pieces_out, steps, step_ret>>

Next ==
    \/ AddPiecePop
    \/ AddPieceNextPos
    \/ AddPieceFail
    \/ AddPieceOk
    \/ BacktrackNextPos
    \/ BacktrackExhausted
    \/ BacktrackEmpty
    \/ MountDone

Init == MountInit

Spec == Init /\ [][Next]_vars

\* no statement of the solver is left to run: the program has ended
\* (print("done") or an exception), or the bound on the loop count is hit
MountHalted ==
    \/ pc \notin {"loop", "add_piece", "backtrack"}
    \/ pc = "loop" /\ Len(unused_pieces) > 0 /\ i >= MaxIter

\* the interpreter runs the solver's next statement whenever there is one:
\* weak fairness of Next, written with MountHalted for ~ENABLED <<Next>>_vars
\* and, every step of Spec being a Next step, <<TRUE>>_vars for <<Next>>_vars
FairSpec == Spec /\ ([]<>MountHalted \/ []<><<TRUE>>_vars)

---------------------------------------------------------------------------
(* Properties of the mount solver *)

\* two pieces share a voxel: a standalone block or a beam block of one is
\* on the position of a standalone block or a beam block of the other
SharesVoxel(a, b) == Cells(a) \cap Cells(b) # {}

\* C1: in the run of mount_puzzle on get_pieces5, after every iteration of
\* the main loop and at termination no two placed pieces share a voxel.
C1_PlacedDisjoint ==
    (catalog = get_pieces5 /\ pc \in {"loop", "done"})
        => \A a, b \in DOMAIN puzzle : a < b => ~SharesVoxel(puzzle[a], puzzle[b])

\* C3: collides returns true if and only if the two pieces share a voxel,
\* at every call add_piece makes on the catalog pieces (each placed piece
\* against the piece being added).
C3_CollidesIffShared ==
    (catalog = get_pieces5 /\ pc = "add_piece")
        => \A k \in DOMAIN puzzle :
               Piece5_collides(puzzle[k], new_piece[1])
                   <=> SharesVoxel(puzzle[k], new_piece[1])

\* the placements of a piece inside its box: every rotation triple in
\* {0..3}^3, moved so that its lowest coordinates are 0, followed by every
\* offset that leaves it valid (a valid piece has no negative coordinate,
\* so no other translation is valid); they include every position its
\* enumerator produces
Placements(p) ==
    UNION {{q \in {Piece5_translate(Piece5_rotate(p, rot),
                       add(get_movement_to_start_pos(Piece5_rotate(p, rot)), d)) :
                   d \in Box5} : Piece5_is_valid(q)} :
           rot \in Rotations}

RECURSIVE CanPlaceFrom(_, _, _)
\* the pieces pieces[k], pieces[k+1], ... have placements that collide
\* neither with each other nor with the chosen ones
CanPlaceFrom(pieces, k, chosen) ==
    IF k > Len(pieces) THEN TRUE
    ELSE \E q \in Placements(pieces[k]) :
             /\ ~piece_collides_with_others(q, chosen)
             /\ CanPlaceFrom(pieces, k + 1, Append(chosen, q))

\* a choice of one position per piece, pairwise non-colliding, exists
SolutionExists(pieces) == CanPlaceFrom(pieces, 1, <<>>)

SolvableInputs == {c \in SmallInputs : SolutionExists(c)}

AllPlaced ==
    /\ pc = "done"
    /\ unused_pieces = <<>>
    /\ {puzzle[k].name : k \in DOMAIN puzzle} = {catalog[k].name : k \in DOMAIN catalog}
    /\ Len(puzzle) = Len(catalog)

\* C4: when a pairwise non-colliding choice of one position per piece
\* exists, the search (add_piece and backtrack) ends with every piece
\* placed: it neither fails nor stops short.
C4_Complete == (catalog \in SolvableInputs) ~> AllPlaced

\* C4 witness: the search ended with the three pieces placed on an input
\* where the second piece ran out of positions in backtrack and the first
\* piece had to be moved.
C4_Witness ==
    /\ AllPlaced
    /\ catalog = DeepBacktrackPieces
    /\ catalog \in SolvableInputs
    /\ puzzle[1].iterator # None

\* C8: when backtracking has exhausted the positions of the first placed
\* piece, the solver stops with a report and raises no fault.
C8_ExhaustionReported == pc # "IndexError"

\* the piece of the catalog with the given name
CatalogPiece(name) == catalog[CHOOSE k \in DOMAIN catalog : catalog[k].name = name]

\* the first state a fresh enumerator of that catalog piece produces
FirstPosition(name) ==
    PiecePositions_next(PiecePositions_iter(PiecePositions(CatalogPiece(name)))).piece

\* p is at the first enumerated position of its catalog piece
AtFirstPosition(p) ==
    /\ p.blocks = FirstPosition(p.name).blocks
    /\ p.beams = FirstPosition(p.name).beams

\* C13: when add_piece fails (the popped piece still collides and its
\* positions are exhausted), the piece is at its first enumerated position
\* on top of unused_pieces, puzzle is unchanged, and False is returned
\* (mount_puzzle goes on to backtrack).
C13_AddPieceFailure ==
    [][(pc = "add_piece" /\ pc' \notin {"add_piece", "loop"})
          => /\ pc' = "backtrack"
             /\ puzzle' = puzzle
             /\ piece_collides_with_others(new_piece[1], puzzle)
             /\ next_pos(new_piece[1]).exc = "StopIteration"
             /\ Pop(unused_pieces') = unused_pieces
             /\ Top(unused_pieces').name = new_piece[1].name
             /\ AtFirstPosition(Top(unused_pieces'))]_vars

\* C13 witness: add_piece has failed on B2 with B1 placed: B2 is back on
\* the stack and backtrack is about to run.
C13_Witness ==
    /\ catalog = BacktrackPieces
    /\ pc = "backtrack"
    /\ Len(puzzle) = 1
    /\ puzzle[1].name = "B1"
    /\ Len(unused_pieces) = 1
    /\ Top(unused_pieces).name = "B2"
    /\ AtFirstPosition(Top(unused_pieces))

\* C14: backtrack pops the last placed piece and advances it; with a next
\* position the piece goes on top of unused_pieces at that position and the
\* main loop goes on (add_piece pops it next); with its positions exhausted
\* it goes on top of unused_pieces at its first position and backtrack runs
\* again on the piece now last in puzzle.
C14_Backtrack ==
    [][(pc = "backtrack" /\ Len(puzzle) > 0)
          => /\ puzzle' = Pop(puzzle)
             /\ Pop(unused_pieces') = unused_pieces
             /\ Top(unused_pieces').name = Top(puzzle).name
             /\ IF next_pos(Top(puzzle)).exc = "none"
                THEN /\ Top(unused_pieces').blocks = next_pos(Top(puzzle)).piece.blocks
                     /\ Top(unused_pieces').beams = next_pos(Top(puzzle)).piece.beams
                     /\ pc' = "loop"
                ELSE /\ AtFirstPosition(Top(unused_pieces'))
                     /\ pc' = "backtrack"]_vars

\* C14 witness: backtrack has reset D2, whose positions were exhausted, and
\* then advanced D1: both are back on the stack, D1 on top.
C14_Witness ==
    /\ catalog = DeepBacktrackPieces
    /\ pc = "loop"
    /\ puzzle = <<>>
    /\ Len(unused_pieces) = 3
    /\ unused_pieces[3].name = "D1"
    /\ unused_pieces[3].iterator # None
    /\ unused_pieces[3].blocks # CatalogPiece("D1").blocks
    /\ unused_pieces[2].name = "D2"
    /\ unused_pieces[2].iterator # None
    /\ AtFirstPosition(unused_pieces[2])

---------------------------------------------------------------------------
(* Unmount solver: solve.py, umount_puzzle.  Pieces are identified by
   their index in puzzle: move_puzzle_piece reinserts the piece it removed
   at the index it had, so a piece keeps its index until a piece before it
   is removed by try_remove_piece; piece_moved is None or <<index>>. *)

solve_grid_dim == 25

\* shift = int((solve_grid_dim - 5) / 2)
shift == (solve_grid_dim - 5) \div 2

\* puzzle_bb_np: the voxels set to 1 by the three nested range loops
puzzle_bb_np ==
    (shift..(shift + 4)) \X (shift..(shift + 4)) \X (shift..(shift + 4))

bb_start == Coords3D(0, 0, 0)

bb_end == Coords3D(solve_grid_dim - 1, solve_grid_dim - 1, solve_grid_dim - 1)

\* piece.get_result(): the final assembly, here the arrangement of the
\* get_pieces5 pieces that mount_puzzle ends on, in catalog order
get_result ==
    LET r1 == Piece5(<<B5(4, 0, 2), B5(4, 2, 2), B5(4, 2, 0)>>,
                        <<<<B5(4, 1, 4), B5(4, 1, 3), B5(4, 1, 2), B5(4, 1, 1), B5(4, 1, 0)>>,
                          <<B5(3, 0, 2), B5(3, 1, 2), B5(3, 2, 2), B5(3, 3, 2), B5(3, 4, 2)>>>>,
                        "P1")
        r2 == Piece5(<<B5(4, 0, 4), B5(2, 0, 4), B5(4, 4, 4), B5(2, 4, 4)>>,
                        <<<<B5(3, 0, 4), B5(3, 1, 4), B5(3, 2, 4), B5(3, 3, 4), B5(3, 4, 4)>>,
                          <<B5(3, 1, 4)>>,
                          <<B5(4, 0, 3), B5(3, 0, 3), B5(2, 0, 3), B5(1, 0, 3), B5(0, 0, 3)>>>>,
                        "P2")
        r3 == Piece5(<<B5(2, 2, 4), B5(0, 0, 4), B5(2, 4, 0), B5(2, 2, 0)>>,
                        <<<<B5(2, 3, 4), B5(2, 3, 3), B5(2, 3, 2), B5(2, 3, 1), B5(2, 3, 0)>>,
                          <<B5(1, 4, 4), B5(1, 3, 4), B5(1, 2, 4), B5(1, 1, 4), B5(1, 0, 4)>>>>,
                        "P3")
        r4 == Piece5(<<B5(0, 2, 2), B5(4, 2, 4)>>,
                        <<<<B5(0, 2, 3), B5(1, 2, 3), B5(2, 2, 3), B5(3, 2, 3), B5(4, 2, 3)>>,
                          <<B5(4, 3, 4), B5(4, 3, 3), B5(4, 3, 2), B5(4, 3, 1), B5(4, 3, 0)>>>>,
                        "P4")
        r5 == Piece5(<<B5(0, 4, 0), B5(0, 4, 2), B5(0, 2, 4), B5(4, 4, 2)>>,
                        <<<<B5(0, 4, 1), B5(1, 4, 1), B5(2, 4, 1), B5(3, 4, 1), B5(4, 4, 1)>>,
                          <<B5(0, 3, 0), B5(0, 3, 1), B5(0, 3, 2), B5(0, 3, 3), B5(0, 3, 4)>>>>,
                        "P5")
        r6 == Piece5(<<B5(2, 4, 2), B5(2, 0, 2), B5(0, 4, 4)>>,
                        <<<<B5(1, 4, 2), B5(1, 3, 2), B5(1, 2, 2), B5(1, 1, 2), B5(1, 0, 2)>>,
                          <<B5(0, 4, 3), B5(1, 4, 3), B5(2, 4, 3), B5(3, 4, 3), B5(4, 4, 3)>>>>,
                        "P6")
        r7 == Piece5(<<B5(4, 4, 0), B5(4, 0, 0), B5(2, 0, 0), B5(0, 0, 2)>>,
                        <<<<B5(3, 4, 0), B5(3, 3, 0), B5(3, 2, 0), B5(3, 1, 0), B5(3, 0, 0)>>,
                          <<B5(3, 0, 0)>>,
                          <<B5(4, 0, 1), B5(3, 0, 1), B5(2, 0, 1), B5(1, 0, 1), B5(0, 0, 1)>>>>,
                        "P7")
        r8 == Piece5(<<B5(0, 0, 0), B5(0, 2, 0)>>,
                        <<<<B5(1, 0, 0), B5(1, 1, 0), B5(1, 2, 0), B5(1, 3, 0), B5(1, 4, 0)>>,
                          <<B5(0, 1, 0), B5(0, 1, 1), B5(0, 1, 2), B5(0, 1, 3), B5(0, 1, 4)>>,
                          <<B5(0, 2, 1), B5(1, 2, 1), B5(2, 2, 1), B5(3, 2, 1), B5(4, 2, 1)>>>>,
                        "P8")
    IN  <<r1, r2, r3, r4, r5, r6, r7, r8>>

\* two pieces of one block each, side by side along x
TwoBlocks ==
    <<Piece5(<<B5(0, 0, 0)>>, <<>>, "T1"), Piece5(<<B5(1, 0, 0)>>, <<>>, "T2")>>

\* a piece of one block enclosed by a piece with a block on each of its
\* six neighbours: neither can be translated in any direction
CagePieces ==
    <<Piece5(<<B5(2, 2, 2)>>, <<>>, "K1"),
      Piece5(<<B5(3, 2, 2), B5(1, 2, 2), B5(2, 3, 2), B5(2, 1, 2),
               B5(2, 2, 3), B5(2, 2, 1)>>, <<>>, "K2")>>

\* a piece of one block in a dead-end tunnel two voxels long inside a second
\* piece, which reaches the last index of the lattice along x once shifted:
\* the block can move one unit along +x, after which neither piece can be
\* translated in a direction move_puzzle_piece tries
TunnelPieces ==
    <<Piece5(<<B5(2, 2, 2)>>, <<>>, "U1"),
      Piece5(<<B5(1, 2, 2), B5(4, 2, 2),
               B5(2, 3, 2), B5(2, 1, 2), B5(2, 2, 3), B5(2, 2, 1),
               B5(3, 3, 2), B5(3, 1, 2), B5(3, 2, 3), B5(3, 2, 1),
               B5(solve_grid_dim - 1 - shift, 2, 2)>>, <<>>, "U2")>>

UmountInputs == {get_result, TwoBlocks, CagePieces, TunnelPieces}

\* Piece5.is_within: every standalone block and every beam block is in the
\* box [bb_start, bb_end]
Piece5_is_within(self, start, end) ==
    \A c \in BlockCells(self) \cup BeamCells(self) : Coords3D_is_within(c, start, end)

\* Piece5.compute_np: np_blbe becomes the voxel bitmask of the standalone
\* blocks and beam blocks at their current positions
compute_np(self, dim) ==
    [self EXCEPT !.np_blbe = BlockCells(self) \cup BeamCells(self)]

\* Piece5.get_last_trans: the last translation of the history, or None
get_last_trans(self) ==
    IF self.umount_trans_history = <<>> THEN None
    ELSE self.umount_trans_history[Len(self.umount_trans_history)]

add_trans_history(self, trans) ==
    [self EXCEPT !.umount_trans_history = Append(@, trans)]

\* Piece5.archive_history: the history is archived and cleared
archive_history(self) == [self EXCEPT !.umount_trans_history = <<>>]

\* np_check_collision after its compute_np calls
NpChecked(pce, others) ==
    [pce |-> pce, puzzle |-> others,
     ret |-> piece_collides_with_others(pce, others)]

np_check_collision(pce, others) ==
    NpChecked(compute_np(pce, solve_grid_dim),
              [k \in DOMAIN others |-> compute_np(others[k], solve_grid_dim)])

RECURSIVE SlideWhile(_, _, _, _)
RECURSIVE SlideChecked(_, _, _)
\* move_puzzle_piece, the while loop and the translate(-m) after it; piece
\* has been translated by m once more than trans_cnt says
SlideWhile(piece, others, m, trans_cnt) ==
    IF Piece5_is_within(piece, bb_start, bb_end)
    THEN SlideChecked(np_check_collision(piece, others), m, trans_cnt)
    ELSE [piece |-> Piece5_translate(piece, neg(m)), puzzle |-> others,
          trans_cnt |-> trans_cnt]

\* the loop left on a collision without the translate(-m) after it
SlideChecked_NoRevert(c, m, trans_cnt) ==
    IF c.ret
    THEN [piece |-> c.pce, puzzle |-> c.puzzle, trans_cnt |-> trans_cnt]
    ELSE SlideWhile(Piece5_translate(c.pce, m), c.puzzle, m, trans_cnt + 1)

\* the second operand of the while condition and the loop body
SlideChecked(c, m, trans_cnt) ==
    IF c.ret
    THEN [piece |-> Piece5_translate(c.pce, neg(m)), puzzle |-> c.puzzle,
          trans_cnt |-> trans_cnt]
    ELSE SlideWhile(Piece5_translate(c.pce, m), c.puzzle, m, trans_cnt + 1)

movements ==
    <<Coords3D(1, 0, 0), Coords3D(0, 1, 0), Coords3D(0, 0, 1),
      Coords3D(-1, 0, 0), Coords3D(0, -1, 0), Coords3D(0, 0, -1)>>

\* movements without movements.remove(-last_trans.get_direction())
MovementsFor_NoRemove(last_trans) == movements

\* movements after movements.remove(-last_trans.get_direction()); a history
\* entry is unit_dir * trans_cnt, so get_direction does not assert
MovementsFor(last_trans) ==
    IF last_trans = None THEN movements
    ELSE SelectSeq(movements, LAMBDA m : m # neg(get_direction(last_trans).value))

RECURSIVE ForMovements(_, _, _, _)
RECURSIVE ForMovementsNext(_, _, _)
\* for m in movements, from the k-th on
ForMovements(piece, others, ms, k) ==
    ForMovementsNext(SlideWhile(Piece5_translate(piece, ms[k]), others, ms[k], 0),
                     ms, k)

\* if trans_cnt != 0: break
ForMovementsNext(r, ms, k) ==
    IF r.trans_cnt # 0 \/ k = Len(ms)
    THEN [piece |-> r.piece, puzzle |-> r.puzzle, trans |-> ms[k],
          trans_cnt |-> r.trans_cnt]
    ELSE ForMovements(r.piece, r.puzzle, ms, k + 1)

\* puzzle.remove(piece)
Without(seq, k) == SubSeq(seq, 1, k - 1) \o SubSeq(seq, k + 1, Len(seq))

\* puzzle.append(piece) in the place of puzzle.insert(p_idx, piece)
Insert_AtEnd(seq, k, e) == Append(seq, e)

\* puzzle.insert(p_idx, piece)
Insert(seq, k, e) == SubSeq(seq, 1, k - 1) \o <<e>> \o SubSeq(seq, k, Len(seq))

MoveResult(r, p_idx) ==
    [puzzle |-> Insert(r.puzzle, p_idx, r.piece), trans |-> r.trans,
     trans_cnt |-> r.trans_cnt]

\* move_puzzle_piece(puzzle, puzzle[p_idx]): the list and the pair returned
move_puzzle_piece(pieces, p_idx) ==
    MoveResult(ForMovements(pieces[p_idx], Without(pieces, p_idx),
                            MovementsFor(get_last_trans(pieces[p_idx])), 1),
               p_idx)

\* try_remove_piece: the pieces whose bitmask has no voxel in puzzle_bb_np
OutOfPuzzle(pieces) == {k \in DOMAIN pieces : pieces[k].np_blbe \cap puzzle_bb_np = {}}

\* the first of them in list order
FirstOut(pieces) == CHOOSE k \in OutOfPuzzle(pieces) : \A j \in OutOfPuzzle(pieces) : k <= j

UmountInit ==
    /\ pc = "umount"
    /\ catalog \in UmountInputs
    /\ puzzle = [k \in DOMAIN catalog |->
                    compute_np(Piece5_translate(catalog[k], Coords3D(shift, shift, shift)),
                               solve_grid_dim)]
    /\ unused_pieces = <<>>
    /\ new_piece = None
    /\ i = 0
    /\ positions = None
    /\ produced = <<>>
    /\ pieces_out = <<>>
    /\ steps = <<>>
    /\ step_ret = None

\* while len(puzzle) > 1: unmount_puzzle_step is called; i is the index of
\* p in its loop "for p in puzzle"
StepEnter ==
    /\ pc = "umount"
    /\ Len(puzzle) > 1
    /\ pc' = "step"
    /\ i' = 1
    /\ step_ret' = [unit_dir |-> None, trans_cnt |-> 0, piece_moved |-> None]
    /\ UNCHANGED <<catalog, puzzle, unused_pieces, new_piece, positions,
                   produced, pieces_out, steps>>

\* trans == null_trans: p could not be moved, the for loop goes on
NotMoved(r) ==
    /\ mul(r.trans, r.trans_cnt) = Coords3D(0, 0, 0)
    /\ puzzle' = r.puzzle
    /\ step_ret' = [unit_dir |-> r.trans, trans_cnt |-> r.trans_cnt,
                    piece_moved |-> None]
    /\ i' = i + 1
    /\ pc' = "step"

\* p was moved: the translation is added to its history and
\* unmount_puzzle_step returns (unit_dir, trans_cnt, piece_moved)
Moved(r) ==
    /\ mul(r.trans, r.trans_cnt) # Coords3D(0, 0, 0)
    /\ puzzle' = [r.puzzle EXCEPT
                     ![i] = add_trans_history(@, mul(r.trans, r.trans_cnt))]
    /\ step_ret' = [unit_dir |-> r.trans, trans_cnt |-> r.trans_cnt,
                    piece_moved |-> <<i>>]
    /\ i' = i
    /\ pc' = "returned"

StepNotMoved ==
    /\ pc = "step"
    /\ i <= Len(puzzle)
    /\ NotMoved(move_puzzle_piece(puzzle, i))
    /\ UNCHANGED <<catalog, unused_pieces, new_piece, positions, produced,
                   pieces_out, steps>>

StepMoved ==
    /\ pc = "step"
    /\ i <= Len(puzzle)
    /\ Moved(move_puzzle_piece(puzzle, i))
    /\ UNCHANGED <<catalog, unused_pieces, new_piece, positions, produced,
                   pieces_out, steps>>

\* the for loop ended with trans None: every history is archived and
\* unmount_puzzle_step returns with piece_moved None
StepStuck ==
    /\ pc = "step"
    /\ i > Len(puzzle)
    /\ puzzle' = [k \in DOMAIN puzzle |-> archive_history(puzzle[k])]
    /\ pc' = "returned"
    /\ UNCHANGED <<catalog, unused_pieces, new_piece, i, positions, produced,
                   pieces_out, steps, step_ret>>

\* piece_moved.translate(...) with piece_moved None
UmountNoneMoved ==
    /\ pc = "returned"
    /\ step_ret.piece_moved = None
    /\ pc' = "AttributeError"
    /\ UNCHANGED <<catalog, puzzle, unused_pieces, new_piece, i, positions,
                   produced, pieces_out, steps, step_ret>>

\* piece_moved.translate(-unit_dir * trans_cnt); i counts the turns of the
\* for loop over range(trans_cnt)
UmountRevert ==
    /\ pc = "returned"
    /\ step_ret.piece_moved # None
    /\ puzzle' = [puzzle EXCEPT ![step_ret.piece_moved[1]] =
                     Piece5_translate(@, mul(neg(step_ret.unit_dir), step_ret.trans_cnt))]
    /\ i' = 0
    /\ pc' = "replay"
    /\ UNCHANGED <<catalog, unused_pieces, new_piece, positions, produced,
                   pieces_out, steps, step_ret>>

\* the replay loop leaving out steps.append(copy.deepcopy(puzzle))
Replayed_NoSnapshot(moved) ==
    /\ puzzle' = moved
    /\ steps' = steps

\* the puzzle after piece_moved.translate(unit_dir) is appended to steps
Replayed(moved) ==
    /\ puzzle' = moved
    /\ steps' = Append(steps, moved)

\* for _ in range(trans_cnt): piece_moved.translate(unit_dir);
\* steps.append(copy.deepcopy(puzzle))
ReplayStep ==
    /\ pc = "replay"
    /\ i < step_ret.trans_cnt
    /\ Replayed([puzzle EXCEPT ![step_ret.piece_moved[1]] =
                    Piece5_translate(@, step_ret.unit_dir)])
    /\ i' = i + 1
    /\ UNCHANGED <<pc, catalog, unused_pieces, new_piece, positions, produced,
                   pieces_out, step_ret>>

\* try_remove_piece leaving out pieces_out.append(p)
Removed_NotAppended(k) ==
    /\ pieces_out' = pieces_out
    /\ puzzle' = Without(puzzle, k)
    /\ steps' = Append(steps, Without(puzzle, k))

\* try_remove_piece removed puzzle[k] and returned True
Removed(k) ==
    /\ pieces_out' = Append(pieces_out, puzzle[k])
    /\ puzzle' = Without(puzzle, k)
    /\ steps' = Append(steps, Without(puzzle, k))

\* try_remove_piece leaving out puzzle.remove(p)
TryRemovePiece_NotRemoved ==
    /\ pc = "replay"
    /\ i = step_ret.trans_cnt
    /\ OutOfPuzzle(puzzle) # {}
    /\ pieces_out' = Append(pieces_out, puzzle[FirstOut(puzzle)])
    /\ steps' = Append(steps, puzzle)
    /\ pc' = "umount"
    /\ UNCHANGED <<catalog, puzzle, unused_pieces, new_piece, i, positions,
                   produced, step_ret>>

\* try_remove_piece returns True: a snapshot is appended to steps
TryRemovePiece ==
    /\ pc = "replay"
    /\ i = step_ret.trans_cnt
    /\ OutOfPuzzle(puzzle) # {}
    /\ Removed(FirstOut(puzzle))
    /\ pc' = "umount"
    /\ UNCHANGED <<catalog, unused_pieces, new_piece, i, positions, produced,
                   step_ret>>

\* try_remove_piece returns False
TryRemoveNone ==
    /\ pc = "replay"
    /\ i = step_ret.trans_cnt
    /\ OutOfPuzzle(puzzle) = {}
    /\ pc' = "umount"
    /\ UNCHANGED <<catalog, puzzle, unused_pieces, new_piece, i, positions,
                   produced, pieces_out, steps, step_ret>>

\* the while loop ends: print("Et voila !"); return steps
UmountDone ==
    /\ pc = "umount"
    /\ Len(puzzle) <= 1
    /\ pc' = "umount_done"
    /\ UNCHANGED <<catalog, puzzle, unused_pieces, new_piece, i, positions,
                   produced, pieces_out, steps, step_ret>>

UmountNext ==
    \/ StepEnter
    \/ StepNotMoved
    \/ StepMoved
    \/ StepStuck
    \/ UmountNoneMoved
    \/ UmountRevert
    \/ ReplayStep
    \/ TryRemovePiece
    \/ TryRemoveNone
    \/ UmountDone

UmountSpec == UmountInit /\ [][UmountNext]_vars

\* no statement of umount_puzzle is left to run: it has returned or an
\* exception has ended it
UmountHalted == pc \in {"umount_done", "AttributeError"}

\* the interpreter runs the next statement of umount_puzzle whenever there
\* is one: weak fairness of UmountNext, written with UmountHalted for
\* ~ENABLED <<UmountNext>>_vars and <<TRUE>>_vars for <<UmountNext>>_vars
UmountFairSpec == UmountSpec /\ ([]<>UmountHalted \/ []<><<TRUE>>_vars)

---------------------------------------------------------------------------
(* Properties of the unmount solver *)

\* C9: in every snapshot appended to steps, every piece lies inside the
\* lattice [0, solve_grid_dim - 1]^3 and no two pieces share a voxel.
C9_SnapshotsSafe ==
    \A s \in DOMAIN steps :
        /\ \A a \in DOMAIN steps[s] : Piece5_is_within(steps[s][a], bb_start, bb_end)
        /\ \A a, b \in DOMAIN steps[s] :
               a < b => ~SharesVoxel(steps[s][a], steps[s][b])

\* C10: after a pass of unmount_puzzle_step that moved no piece,
\* umount_puzzle does not crash on the absent moved piece.
C10_StuckHandled == pc # "AttributeError"

PieceNames(pieces) == {pieces[k].name : k \in DOMAIN pieces}

\* umount_puzzle has returned with one active piece and every other piece
\* of the assembly in pieces_out
OneLeft ==
    /\ pc = "umount_done"
    /\ Len(puzzle) = 1
    /\ Len(pieces_out) = Len(catalog) - 1
    /\ PieceNames(pieces_out) = PieceNames(catalog) \ PieceNames(puzzle)

Consulted(pieces) ==
    {k \in DOMAIN pieces : \A j \in OutOfPuzzle(pieces) : k <= j}

\* C12: when try_remove_piece runs, the bitmask it reads for a piece is the
\* one of the piece's current block positions, and a piece it removes has
\* no voxel in the 5x5x5 target region.
C12_RemovalTestCurrent ==
    (pc = "replay" /\ i = step_ret.trans_cnt)
        => \A k \in Consulted(puzzle) :
               /\ puzzle[k].np_blbe = Cells(puzzle[k])
               /\ k \in OutOfPuzzle(puzzle) => Cells(puzzle[k]) \cap puzzle_bb_np = {}


\* the componentwise sign of a translation
SignVector(v) == <<Sign(v[1]), Sign(v[2]), Sign(v[3])>>

Last(seq) == seq[Len(seq)]

\* C23: the unmount solver never moves a piece in the direction opposite to
\* that of the piece's own preceding successful move, the last entry of its
\* history when the history has not been archived since.
C23_NoReverse ==
    [][(/\ pc = "step"
        /\ pc' = "returned"
        /\ step_ret'.piece_moved # None
        /\ puzzle[i].umount_trans_history # <<>>)
            => /\ step_ret'.piece_moved = <<i>>
               /\ puzzle'[i].name = puzzle[i].name
               /\ step_ret'.unit_dir
                      # neg(SignVector(Last(puzzle[i].umount_trans_history)))]_vars

\* C23 witness: a piece has been moved a second time, in a direction other
\* than that of its first move.
C23_Witness ==
    /\ pc = "returned"
    /\ step_ret.piece_moved # None
    /\ LET h == puzzle[step_ret.piece_moved[1]].umount_trans_history
       IN  /\ Len(h) >= 2
           /\ Last(h) = mul(step_ret.unit_dir, step_ret.trans_cnt)
           /\ SignVector(h[Len(h) - 1]) # step_ret.unit_dir

\* what a snapshot shows of a piece: its name and where its blocks are
Shown(p) == [name |-> p.name, blocks |-> p.blocks, beams |-> p.beams]

Arrangement(pieces) == [k \in DOMAIN pieces |-> Shown(pieces[k])]

\* the arrangement before the move being replayed, n snapshots of which
\* have been recorded: the last snapshot before them, or the shifted
\* assembly when there is none
PreMove(n) ==
    IF Len(steps) = n
    THEN Arrangement([k \in DOMAIN catalog |->
                         Piece5_translate(catalog[k], Coords3D(shift, shift, shift))])
    ELSE Arrangement(steps[Len(steps) - n])

\* the arrangement with piece m translated by v
Displaced(arr, m, v) == [arr EXCEPT ![m] = Shown(Piece5_translate(@, v))]

\* a move of piece m, distance trans_cnt along unit_dir, has been made
MoveMade ==
    /\ pc = "returned"
    /\ step_ret.piece_moved # None
    /\ Arrangement(puzzle)
           = Displaced(PreMove(0), step_ret.piece_moved[1],
                       mul(step_ret.unit_dir, step_ret.trans_cnt))

\* i snapshots of the move have been recorded, the k-th showing the moved
\* piece k unit steps from where it was and the other pieces unchanged, and
\* the puzzle is as the last of them shows
ReplayedSoFar ==
    /\ i <= step_ret.trans_cnt
    /\ Len(steps) >= i
    /\ \A k \in 1..i :
          Arrangement(steps[Len(steps) - i + k])
              = Displaced(PreMove(i), step_ret.piece_moved[1],
                          mul(step_ret.unit_dir, k))
    /\ Arrangement(puzzle)
           = Displaced(PreMove(i), step_ret.piece_moved[1],
                       mul(step_ret.unit_dir, i))

\* C24: a successful unmount move of distance n appends exactly n snapshots
\* to steps, the k-th showing the moved piece k unit steps from its pre-move
\* position and all other pieces unchanged, and one more snapshot if a piece
\* is removed after the move; after the replay the moved piece is at its
\* post-move position.
C24_ReplaySnapshots ==
    /\ []((pc = "returned" /\ step_ret.piece_moved # None) => MoveMade)
    /\ [](pc = "replay" => ReplayedSoFar)
    /\ [][/\ pc # "replay" => steps' = steps
          /\ (pc = "replay" /\ pc' = "replay") => Len(steps') = Len(steps) + 1
          /\ (pc = "replay" /\ pc' # "replay") =>
                /\ i = step_ret.trans_cnt
                /\ Len(steps') = Len(steps)
                                   + (IF Len(puzzle') < Len(puzzle) THEN 1 ELSE 0)
                /\ Len(puzzle') = Len(puzzle) - (Len(pieces_out') - Len(pieces_out))]_vars

\* C24 witness: a move of distance 2 or more has been replayed and a piece
\* removed after it; the last snapshot is the one of the removal.
C24_Witness ==
    /\ pc = "umount"
    /\ step_ret # None
    /\ step_ret.trans_cnt >= 2
    /\ Len(steps) > step_ret.trans_cnt
    /\ Len(steps[Len(steps)]) < Len(steps[Len(steps) - 1])
    /\ Arrangement(steps[Len(steps)]) = Arrangement(puzzle)
---------------------------------------------------------------------------
(* Calls of single methods on arguments drawn from small sets: the
   argument is kept in new_piece, the value returned in step_ret. *)

\* coordinates from one below the box to one above it
BlockCoords == (0 - 1)..(GridMax + 1)

\* Block(Coords3D(x, y, z), grid_5) for coordinates in and around the box
IsValidInit ==
    /\ pc = "is_valid"
    /\ new_piece \in {<<Block(Coords3D(x, y, z), g)>> :
                         x \in BlockCoords, y \in BlockCoords, z \in BlockCoords,
                         g \in BOOLEAN}
    /\ step_ret = None
    /\ catalog = <<>>
    /\ puzzle = <<>>
    /\ unused_pieces = <<>>
    /\ i = 0
    /\ positions = None
    /\ produced = <<>>
    /\ pieces_out = <<>>
    /\ steps = <<>>

\* blk.is_valid()
IsValidCall ==
    /\ pc = "is_valid"
    /\ step_ret' = <<Block_is_valid(new_piece[1])>>
    /\ pc' = "is_valid_ret"
    /\ UNCHANGED <<catalog, puzzle, unused_pieces, new_piece, i, positions,
                   produced, pieces_out, steps>>

IsValidSpec == IsValidInit /\ [][IsValidCall]_vars

\* block_coord_to_grid5 with the case of 2 written as in beam_coord_to_grid5
block_coord_to_grid5_PlusOne(pos) ==
    IF pos = 0 THEN [exc |-> "none", value |-> pos]
    ELSE IF pos = 1 THEN [exc |-> "none", value |-> pos + 1]
    ELSE IF pos = 2 THEN [exc |-> "none", value |-> pos + 1]
    ELSE [exc |-> "AssertionError", value |-> None]

\* assert False is the exception AssertionError
block_coord_to_grid5(pos) ==
    IF pos = 0 THEN [exc |-> "none", value |-> pos]
    ELSE IF pos = 1 THEN [exc |-> "none", value |-> pos + 1]
    ELSE IF pos = 2 THEN [exc |-> "none", value |-> pos + 2]
    ELSE [exc |-> "AssertionError", value |-> None]

beam_coord_to_grid5(pos) ==
    IF pos = 0 THEN [exc |-> "none", value |-> pos]
    ELSE IF pos = 1 THEN [exc |-> "none", value |-> pos]
    ELSE IF pos = 2 THEN [exc |-> "none", value |-> pos + 1]
    ELSE IF pos = 3 THEN [exc |-> "none", value |-> pos + 2]
    ELSE [exc |-> "AssertionError", value |-> None]

\* Coords3D(cx, cy, cz) of three converted coordinates, or the exception
\* the first failing conversion raised
ConvertedCoords(cx, cy, cz) ==
    IF cx.exc # "none" THEN cx
    ELSE IF cy.exc # "none" THEN cy
    ELSE IF cz.exc # "none" THEN cz
    ELSE [exc |-> "none", value |-> Coords3D(cx.value, cy.value, cz.value)]

beam_to_grid5(coords3d) ==
    ConvertedCoords(beam_coord_to_grid5(coords3d[1]),
                    beam_coord_to_grid5(coords3d[2]),
                    beam_coord_to_grid5(coords3d[3]))

\* return Block(blk, True)
BlockOf(blk) ==
    IF blk.exc # "none" THEN blk
    ELSE [exc |-> "none", value |-> Block(blk.value, TRUE)]

Block_to_grid_5(self) ==
    BlockOf(ConvertedCoords(block_coord_to_grid5(self.pos[1]),
                            block_coord_to_grid5(self.pos[2]),
                            block_coord_to_grid5(self.pos[3])))

\* Beam.__init__
Beam(start, vect) == [start |-> start, end |-> add(start, vect), vect |-> vect]

Max2(a, b) == IF a > b THEN a ELSE b

\* the blocks appended by the three nested range loops, x outermost, for
\* the loop counts nx, ny, nz
BeamBlocks(start, nx, ny, nz) ==
    [n \in 1..(nx * ny * nz) |->
        Block(Coords3D(start[1] + ((n - 1) \div (ny * nz)),
                       start[2] + (((n - 1) \div nz) % ny),
                       start[3] + ((n - 1) % nz)),
              TRUE)]

\* Beam.to_grid_5 once start and vect are converted
BeamExpanded(start, vect) ==
    IF start.exc # "none" THEN start
    ELSE IF vect.exc # "none" THEN vect
    ELSE [exc |-> "none",
          value |-> BeamBlocks(start.value, Max2(1, vect.value[1]),
                               Max2(1, vect.value[2]), Max2(1, vect.value[3]))]

Beam_to_grid_5(self) == BeamExpanded(beam_to_grid5(self.start), beam_to_grid5(self.vect))

\* the coordinates of coarse blocks, from one below the 3x3x3 box to one
\* above it
CoarseCoords == (0 - 1)..3

\* Block(Coords3D(x, y, z)) for coarse coordinates in and around the box
BlockToGrid5Init ==
    /\ pc = "block_to_grid_5"
    /\ new_piece \in {<<Block(Coords3D(x, y, z), FALSE)>> :
                         x \in CoarseCoords, y \in CoarseCoords, z \in CoarseCoords}
    /\ step_ret = None
    /\ catalog = <<>>
    /\ puzzle = <<>>
    /\ unused_pieces = <<>>
    /\ i = 0
    /\ positions = None
    /\ produced = <<>>
    /\ pieces_out = <<>>
    /\ steps = <<>>

\* blk.to_grid_5()
BlockToGrid5Call ==
    /\ pc = "block_to_grid_5"
    /\ step_ret' = Block_to_grid_5(new_piece[1])
    /\ pc' = "block_to_grid_5_ret"
    /\ UNCHANGED <<catalog, puzzle, unused_pieces, new_piece, i, positions,
                   produced, pieces_out, steps>>

BlockToGrid5Spec == BlockToGrid5Init /\ [][BlockToGrid5Call]_vars

\* the vectors of straight beams: length 1..3 along one axis, 0 or 1 on the
\* other two, as in get_pieces
StraightVects ==
    {v \in (0..3) \X (0..3) \X (0..3) :
        \E a \in 1..3 : v[a] >= 1 /\ \A k \in (1..3) \ {a} : v[k] <= 1}

\* Beam(start, vect) for a start in the beam grid and a straight vect
BeamToGrid5Init ==
    /\ pc = "beam_to_grid_5"
    /\ new_piece \in {<<Beam(s, v)>> : s \in (0..3) \X (0..3) \X (0..3),
                                       v \in StraightVects}
    /\ step_ret = None
    /\ catalog = <<>>
    /\ puzzle = <<>>
    /\ unused_pieces = <<>>
    /\ i = 0
    /\ positions = None
    /\ produced = <<>>
    /\ pieces_out = <<>>
    /\ steps = <<>>

\* beam.to_grid_5()
BeamToGrid5Call ==
    /\ pc = "beam_to_grid_5"
    /\ step_ret' = Beam_to_grid_5(new_piece[1])
    /\ pc' = "beam_to_grid_5_ret"
    /\ UNCHANGED <<catalog, puzzle, unused_pieces, new_piece, i, positions,
                   produced, pieces_out, steps>>

BeamToGrid5Spec == BeamToGrid5Init /\ [][BeamToGrid5Call]_vars

\* get_pieces: the standalone blocks of piece1 (P1)
piece1_blocks == <<B3(1, 0, 0), B3(1, 0, 1), B3(2, 0, 1)>>

---------------------------------------------------------------------------
(* Properties of single methods *)

AllOdd(pos) == \A k \in 1..3 : pos[k] % 2 = 1

\* C17: is_valid() of a fine-grid block returns true if and only if its
\* position is in [0,4]^3 and its three coordinates are not all odd.
C17_BlockValidParity ==
    (pc = "is_valid_ret" /\ new_piece[1].grid_5)
        => (step_ret[1] <=> (new_piece[1].pos \in Box5 /\ ~AllOdd(new_piece[1].pos)))

\* the length of a straight beam in coarse units: its largest component
BeamLength(vect) == Max2(vect[1], Max2(vect[2], vect[3]))

\* the blocks of the sequence follow each other along one axis
Contiguous(blocks) ==
    \E u \in {Coords3D(1, 0, 0), Coords3D(0, 1, 0), Coords3D(0, 0, 1)} :
        \A k \in 1..(Len(blocks) - 1) : blocks[k + 1].pos = add(blocks[k].pos, u)

\* C19: to_grid_5() of a straight beam of length L in coarse units returns
\* exactly L fine-grid Blocks, contiguous along the axis of the beam.
C19_BeamExpansion ==
    pc = "beam_to_grid_5_ret"
        => /\ step_ret.exc = "none"
           /\ Len(step_ret.value) = BeamLength(new_piece[1].vect)
           /\ Contiguous(step_ret.value)
           /\ \A k \in DOMAIN step_ret.value : step_ret.value[k].grid_5

\* C20: to_grid_5() of a coarse block maps each coordinate c in {0,1,2} to
\* 2c and fails for a block with any other coordinate; the blocks of P1 at
\* (1,0,0), (1,0,1), (2,0,1) become (2,0,0), (2,0,2), (4,0,2).
C20_BlockExpansion ==
    /\ pc = "block_to_grid_5_ret" =>
          IF new_piece[1].pos \in (0..2) \X (0..2) \X (0..2)
          THEN /\ step_ret.exc = "none"
               /\ step_ret.value = Block(mul(new_piece[1].pos, 2), TRUE)
          ELSE step_ret.exc = "AssertionError"
    /\ [k \in DOMAIN piece1_blocks |-> Block_to_grid_5(piece1_blocks[k]).value.pos]
           = <<Coords3D(2, 0, 0), Coords3D(2, 0, 2), Coords3D(4, 0, 2)>>

\* C20 witness: to_grid_5() has returned for the block of P1 at (2,0,1).
C20_Witness ==
    /\ pc = "block_to_grid_5_ret"
    /\ new_piece[1] = piece1_blocks[3]
    /\ step_ret.exc = "none"
    /\ step_ret.value.pos = Coords3D(4, 0, 2)

---------------------------------------------------------------------------
(* Calls of get_movement_to_start_pos, as search_next makes them: on a
   catalog piece after piece.rotate(rot_state). *)

\* tmp = copy.deepcopy(self.piece); tmp.rotate(rot) for rot in range(4)^3
StartPosInit ==
    /\ pc = "get_movement_to_start_pos"
    /\ new_piece \in {<<Piece5_rotate(get_pieces5[k], r)>> :
                         k \in DOMAIN get_pieces5, r \in Rotations}
    /\ step_ret = None
    /\ catalog = <<>>
    /\ puzzle = <<>>
    /\ unused_pieces = <<>>
    /\ i = 0
    /\ positions = None
    /\ produced = <<>>
    /\ pieces_out = <<>>
    /\ steps = <<>>

\* tmp.get_movement_to_start_pos()
StartPosCall ==
    /\ pc = "get_movement_to_start_pos"
    /\ step_ret' = <<get_movement_to_start_pos(new_piece[1])>>
    /\ pc' = "get_movement_to_start_pos_ret"
    /\ UNCHANGED <<catalog, puzzle, unused_pieces, new_piece, i, positions,
                   produced, pieces_out, steps>>

StartPosSpec == StartPosInit /\ [][StartPosCall]_vars

---------------------------------------------------------------------------
(* coords.py: Coords3D.get_bb_vect, called on a vector and a box length *)

\* one component of get_bb_vect
BbScalar(scalar, bb_len) ==
    IF scalar < 0 THEN 0 - scalar
    ELSE IF scalar >= bb_len THEN bb_len - scalar
    ELSE 0

get_bb_vect(self, bb_len) ==
    Coords3D(BbScalar(self[1], bb_len), BbScalar(self[2], bb_len),
             BbScalar(self[3], bb_len))

\* the box lengths the callers pass: the default 3, 4 for beams, 5 for
\* fine-grid blocks
BbLens == {3, 4, 5}

\* components from two below the box to one above the largest box
VectCoords == (0 - 2)..6

BbVectInit ==
    /\ pc = "get_bb_vect"
    /\ new_piece \in {<<[self |-> Coords3D(x, y, z), bb_len |-> n]>> :
                         x \in VectCoords, y \in VectCoords, z \in VectCoords,
                         n \in BbLens}
    /\ step_ret = None
    /\ catalog = <<>>
    /\ puzzle = <<>>
    /\ unused_pieces = <<>>
    /\ i = 0
    /\ positions = None
    /\ produced = <<>>
    /\ pieces_out = <<>>
    /\ steps = <<>>

\* self.get_bb_vect(bb_len)
BbVectCall ==
    /\ pc = "get_bb_vect"
    /\ step_ret' = <<get_bb_vect(new_piece[1].self, new_piece[1].bb_len)>>
    /\ pc' = "get_bb_vect_ret"
    /\ UNCHANGED <<catalog, puzzle, unused_pieces, new_piece, i, positions,
                   produced, pieces_out, steps>>

BbVectSpec == BbVectInit /\ [][BbVectCall]_vars

---------------------------------------------------------------------------
(* piece.py: Piece5.collides called on two pieces.  The pair is kept in
   new_piece as [self, other], the value returned in step_ret. *)

\* translation components up to one more than the side of the box, beyond
\* which no two voxels of a catalog piece are apart
ShiftCoords == (0 - (GridMax + 1))..(GridMax + 1)

\* other = copy.deepcopy(p); other.translate(t), for a catalog piece p
SelfCollidesInit ==
    /\ pc = "collides_self"
    /\ new_piece \in {<<[self |-> get_pieces5[k],
                         other |-> Piece5_translate(get_pieces5[k], Coords3D(x, y, z)),
                         t |-> Coords3D(x, y, z)]>> :
                         k \in DOMAIN get_pieces5,
                         x \in ShiftCoords, y \in ShiftCoords, z \in ShiftCoords}
    /\ step_ret = None
    /\ catalog = <<>>
    /\ puzzle = <<>>
    /\ unused_pieces = <<>>
    /\ i = 0
    /\ positions = None
    /\ produced = <<>>
    /\ pieces_out = <<>>
    /\ steps = <<>>

\* p.collides(other)
SelfCollidesCall ==
    /\ pc = "collides_self"
    /\ step_ret' = <<Piece5_collides(new_piece[1].self, new_piece[1].other)>>
    /\ pc' = "collides_self_ret"
    /\ UNCHANGED <<catalog, puzzle, unused_pieces, new_piece, i, positions,
                   produced, pieces_out, steps>>

SelfCollidesSpec == SelfCollidesInit /\ [][SelfCollidesCall]_vars

\* the placements collides is called on as self: each catalog piece where
\* get_pieces5 puts it, and P8 in each of its positions inside the box
SelfPlacements(pieces) ==
    {pieces[k] : k \in DOMAIN pieces} \cup Placements(pieces[Len(pieces)])

\* as other: every catalog piece in each of its positions inside the box
OtherPlacements(pieces) == UNION {Placements(pieces[k]) : k \in DOMAIN pieces}

CollidesInit ==
    /\ pc = "collides"
    /\ new_piece \in {<<[self |-> a, other |-> b]>> :
                         a \in SelfPlacements(get_pieces5),
                         b \in OtherPlacements(get_pieces5)}
    /\ step_ret = None
    /\ catalog = <<>>
    /\ puzzle = <<>>
    /\ unused_pieces = <<>>
    /\ i = 0
    /\ positions = None
    /\ produced = <<>>
    /\ pieces_out = <<>>
    /\ steps = <<>>

\* a.collides(b) and b.collides(a)
CollidesCall ==
    /\ pc = "collides"
    /\ step_ret' = <<Piece5_collides(new_piece[1].self, new_piece[1].other),
                     Piece5_collides(new_piece[1].other, new_piece[1].self)>>
    /\ pc' = "collides_ret"
    /\ UNCHANGED <<catalog, puzzle, unused_pieces, new_piece, i, positions,
                   produced, pieces_out, steps>>

CollidesSpec == CollidesInit /\ [][CollidesCall]_vars

---------------------------------------------------------------------------
(* coords.py: rot90_x / rot90_y / rot90_z called four times on a vector, and
   piece.py: Piece5.rotate called with a triple of counts.  A vector call
   keeps the vector and the axis in new_piece, the vector as it is now in
   step_ret and the number of calls made in i. *)

MaxRotCnt == 5

RotateInit ==
    /\ \/ /\ pc = "rot90"
          /\ new_piece \in {<<[v |-> Coords3D(x, y, z), axis |-> a]>> :
                               x \in VectCoords, y \in VectCoords,
                               z \in VectCoords, a \in 1..3}
          /\ step_ret = <<new_piece[1].v>>
       \/ /\ pc = "rotate"
          /\ new_piece \in {<<[piece |-> get_pieces5[k], rot_cnt |-> <<a, b, c>>]>> :
                               k \in DOMAIN get_pieces5, a \in 0..MaxRotCnt,
                               b \in 0..MaxRotCnt, c \in 0..MaxRotCnt}
          /\ step_ret = None
    /\ catalog = <<>>
    /\ puzzle = <<>>
    /\ unused_pieces = <<>>
    /\ i = 0
    /\ positions = None
    /\ produced = <<>>
    /\ pieces_out = <<>>
    /\ steps = <<>>

\* v.rot90_x(), v.rot90_y() or v.rot90_z(), up to four times
Rot90Call ==
    /\ pc = "rot90"
    /\ i < 4
    /\ step_ret' = <<CASE new_piece[1].axis = 1 -> rot90_x(step_ret[1])
                       [] new_piece[1].axis = 2 -> rot90_y(step_ret[1])
                       [] OTHER -> rot90_z(step_ret[1])>>
    /\ i' = i + 1
    /\ UNCHANGED <<pc, catalog, puzzle, unused_pieces, new_piece, positions,
                   produced, pieces_out, steps>>

\* piece.rotate(rot_cnt)
RotateCall ==
    /\ pc = "rotate"
    /\ step_ret' = <<Piece5_rotate(new_piece[1].piece, new_piece[1].rot_cnt)>>
    /\ pc' = "rotate_ret"
    /\ UNCHANGED <<catalog, puzzle, unused_pieces, new_piece, i, positions,
                   produced, pieces_out, steps>>

RotateNext == Rot90Call \/ RotateCall

RotateSpec == RotateInit /\ [][RotateNext]_vars

---------------------------------------------------------------------------
(* coords.py: Coords3D.get_direction called on a vector *)

GetDirectionInit ==
    /\ pc = "get_direction"
    /\ new_piece \in {<<Coords3D(x, y, z)>> :
                         x \in VectCoords, y \in VectCoords, z \in VectCoords}
    /\ step_ret = None
    /\ catalog = <<>>
    /\ puzzle = <<>>
    /\ unused_pieces = <<>>
    /\ i = 0
    /\ positions = None
    /\ produced = <<>>
    /\ pieces_out = <<>>
    /\ steps = <<>>

\* v.get_direction()
GetDirectionCall ==
    /\ pc = "get_direction"
    /\ step_ret' = get_direction(new_piece[1])
    /\ pc' = "get_direction_ret"
    /\ UNCHANGED <<catalog, puzzle, unused_pieces, new_piece, i, positions,
                   produced, pieces_out, steps>>

GetDirectionSpec == GetDirectionInit /\ [][GetDirectionCall]_vars

---------------------------------------------------------------------------
(* piece.py: Piece5.next_pos called again and again on a catalog piece, as
   add_piece and backtrack do, and again after it has raised StopIteration.
   The piece is kept in new_piece, the number of calls that raised in i. *)

MaxExhausted == 3

NextPosInit ==
    /\ pc = "next_pos"
    /\ new_piece \in {<<get_pieces5[k]>> : k \in DOMAIN get_pieces5}
    /\ i = 0
    /\ step_ret = None
    /\ catalog = <<>>
    /\ puzzle = <<>>
    /\ unused_pieces = <<>>
    /\ positions = None
    /\ produced = <<>>
    /\ pieces_out = <<>>
    /\ steps = <<>>

\* the call r of new_piece.next_pos() has returned
NextPosReturned(r) ==
    /\ r.exc = "none"
    /\ new_piece' = <<r.piece>>
    /\ step_ret' = <<r.exc>>
    /\ i' = i

\* the call r of new_piece.next_pos() has raised StopIteration
NextPosRaised(r) ==
    /\ r.exc = "StopIteration"
    /\ new_piece' = <<r.piece>>
    /\ step_ret' = <<r.exc>>
    /\ i' = i + 1

NextPosCall ==
    /\ pc = "next_pos"
    /\ i < MaxExhausted
    /\ NextPosReturned(next_pos(new_piece[1]))
    /\ UNCHANGED <<pc, catalog, puzzle, unused_pieces, positions, produced,
                   pieces_out, steps>>

NextPosStop ==
    /\ pc = "next_pos"
    /\ i < MaxExhausted
    /\ NextPosRaised(next_pos(new_piece[1]))
    /\ UNCHANGED <<pc, catalog, puzzle, unused_pieces, positions, produced,
                   pieces_out, steps>>

NextPosNext == NextPosCall \/ NextPosStop

NextPosSpec == NextPosInit /\ [][NextPosNext]_vars

\* no call is left to make
NextPosHalted == i >= MaxExhausted

\* the caller makes its next call whenever there is one to make: weak
\* fairness of NextPosNext, written with NextPosHalted for
\* ~ENABLED <<NextPosNext>>_vars and <<TRUE>>_vars for <<NextPosNext>>_vars
NextPosFairSpec == NextPosSpec /\ ([]<>NextPosHalted \/ []<><<TRUE>>_vars)

---------------------------------------------------------------------------
(* Properties of the vector operations and of canonicalization *)

\* the smallest coordinate of the piece on one axis, beams included
MinCoord(p, axis) ==
    CHOOSE m \in {c[axis] : c \in Cells(p)} :
        \A c \in Cells(p) : m <= c[axis]

\* 1 when the translation t leaves a standalone block of p odd on the axis
ParityFix(p, axis, t) ==
    IF \E k \in DOMAIN p.blocks : (p.blocks[k].pos[axis] + t) % 2 = 1
    THEN 1 ELSE 0

\* the offset bringing the minimum to 0, plus the parity correction
FixedOffset(p) ==
    [axis \in 1..3 |->
        (0 - MinCoord(p, axis)) + ParityFix(p, axis, 0 - MinCoord(p, axis))]

\* C21: get_movement_to_start_pos returns the translation that brings the
\* per-axis minimum coordinate of the piece to 0, plus 1 on each axis where
\* that translation would leave a coordinate of its blocks odd.
C21_CanonicalOffset ==
    pc = "get_movement_to_start_pos_ret" => step_ret[1] = FixedOffset(new_piece[1])

InRange(c, n) == c >= 0 /\ c < n

Abs(a) == IF a < 0 THEN 0 - a ELSE a

\* d is a smallest displacement bringing the component c into [0, n)
MinimalFix(c, d, n) ==
    /\ InRange(c + d, n)
    /\ \A e \in (0 - (Abs(c) + n))..(Abs(c) + n) :
          InRange(c + e, n) => Abs(d) <= Abs(e)

\* C22: get_bb_vect returns the zero vector if and only if every component
\* of the vector is in [0, bb_len); otherwise the returned vector added to
\* it brings every component into [0, bb_len) with the smallest possible
\* displacement on each axis.
C22_ClampToBox ==
    pc = "get_bb_vect_ret" =>
        LET v == new_piece[1].self
            n == new_piece[1].bb_len
            r == step_ret[1]
        IN  /\ (r = Coords3D(0, 0, 0)) <=> (\A k \in 1..3 : InRange(v[k], n))
            /\ \A k \in 1..3 : MinimalFix(v[k], r[k], n)

\* C25 as stated: a catalog piece does not collide with a copy of itself
\* translated by a non-zero vector.
C25_NoSelfCollision ==
    (pc = "collides_self_ret" /\ new_piece[1].t # Coords3D(0, 0, 0))
        => step_ret[1] = FALSE

\* t is the vector from a voxel of the set to another voxel of the set
IsDifference(t, cells) == \E a \in cells, b \in cells : add(a, t) = b

\* C25 amended: a catalog piece does not collide with a copy of itself
\* translated by a non-zero vector that is not the vector between two of
\* its voxels (standalone blocks and beam blocks).
C25_SelfCollisionAmended ==
    (/\ pc = "collides_self_ret"
     /\ new_piece[1].t # Coords3D(0, 0, 0)
     /\ ~IsDifference(new_piece[1].t, Cells(new_piece[1].self)))
        => step_ret[1] = FALSE

\* C25 witness: collides has returned false for P1 and its copy translated
\* by (0, 2, 0), a vector no two voxels of P1 are apart by.
C25_Witness ==
    /\ pc = "collides_self_ret"
    /\ new_piece[1].self.name = "P1"
    /\ new_piece[1].t = Coords3D(0, 2, 0)
    /\ ~IsDifference(new_piece[1].t, Cells(new_piece[1].self))
    /\ step_ret[1] = FALSE

\* C26: collision is symmetric: a.collides(b) equals b.collides(a) for two
\* pieces in any placement.
C26_CollidesSymmetric ==
    pc = "collides_ret" => step_ret[1] = step_ret[2]

\* C26 witness: both calls have returned true for two different pieces of
\* which a standalone block of the first lies on a beam block of the second.
C26_Witness ==
    /\ pc = "collides_ret"
    /\ new_piece[1].self.name # new_piece[1].other.name
    /\ BlockCells(new_piece[1].self) \cap BeamCells(new_piece[1].other) # {}
    /\ BeamCells(new_piece[1].self) \cap BlockCells(new_piece[1].other) = {}
    /\ step_ret = <<TRUE, TRUE>>

\* C27: rot90_x applied four times to a vector returns the vector, and so
\* do rot90_y and rot90_z; rotate with the counts (a, b, c) gives the same
\* piece as rotate with (a mod 4, b mod 4, c mod 4).
C27_RotationPeriod ==
    /\ (pc = "rot90" /\ i = 4) => step_ret[1] = new_piece[1].v
    /\ pc = "rotate_ret" =>
          step_ret[1] = Piece5_rotate(new_piece[1].piece,
                                      <<new_piece[1].rot_cnt[1] % 4,
                                        new_piece[1].rot_cnt[2] % 4,
                                        new_piece[1].rot_cnt[3] % 4>>)

\* C27 witness: rotate has returned for P1 and the counts (5, 4, 1), of
\* which two are not below 4, and has moved the piece.
C27_Witness ==
    /\ pc = "rotate_ret"
    /\ new_piece[1].piece.name = "P1"
    /\ new_piece[1].rot_cnt = <<5, 4, 1>>
    /\ step_ret[1] # new_piece[1].piece
    /\ step_ret[1] = Piece5_rotate(new_piece[1].piece, <<1, 0, 1>>)

\* the number of non-zero components of a vector
NonZero(v) == Cardinality({k \in 1..3 : v[k] # 0})

\* C28: get_direction returns the componentwise sign vector of a vector with
\* at most one non-zero component and fails with an assertion for every
\* vector with two or more non-zero components.
C28_UnitDirection ==
    pc = "get_direction_ret" =>
        IF NonZero(new_piece[1]) <= 1
        THEN /\ step_ret.exc = "none"
             /\ \A k \in 1..3 :
                   step_ret.value[k] = (IF new_piece[1][k] > 0 THEN 1
                                        ELSE IF new_piece[1][k] < 0 THEN 0 - 1
                                        ELSE 0)
        ELSE step_ret.exc = "AssertionError"

\* C28 witness: get_direction has failed for (0, -2, 3), whose y is negative
\* and z positive.
C28_Witness ==
    /\ pc = "get_direction_ret"
    /\ new_piece[1] = Coords3D(0, 0 - 2, 3)
    /\ step_ret.exc = "AssertionError"

---------------------------------------------------------------------------
(* Order and end of the enumeration *)

\* the offset bringing the minimum corner of p to the origin
CanonicalOffset(p) ==
    Coords3D(0 - MinCoord(p, 1), 0 - MinCoord(p, 2), 0 - MinCoord(p, 3))

\* the placement of the state (offset, trans, rot) of the enumerator s
PlacedAt(s, offset, trans, rot) ==
    Piece5_translate(Piece5_rotate(s.piece, rot), add(offset, trans))

\* the placement at the in-flight translation trans lies inside the box
Fits(s, trans) == Cells(PlacedAt(s, s.offset, trans, s.rot_state)) \subseteq Box5

\* s2 is at the rotation rot with no in-flight translation and the offset
\* of the rotated piece
RotatedTo(s, s2, rot) ==
    /\ s2.rot_state = rot
    /\ s2.trans_state = Coords3D(0, 0, 0)
    /\ s2.offset = CanonicalOffset(Piece5_rotate(s.piece, rot))

\* s2 follows s in the odometer: the first of an X, Y or Z translation
\* advance that stays inside the box and of an X, Y or Z rotation count
\* below 4, with the faster digits reset; none of them: exhausted
OdometerStep(s, s2) ==
    LET t == s.trans_state
        r == s.rot_state
        Advance(axis, to) ==
            /\ s2.rot_state = r
            /\ s2.offset = s.offset
            /\ s2.trans_state[axis] > t[axis]
            /\ s2.trans_state = [to EXCEPT ![axis] = s2.trans_state[axis]]
            /\ Fits(s, s2.trans_state)
    IN  IF \E d \in 1..GridMax : Fits(s, <<t[1] + d, t[2], t[3]>>)
        THEN Advance(1, t)
        ELSE IF \E d \in 1..GridMax : Fits(s, <<0, t[2] + d, t[3]>>)
        THEN Advance(2, <<0, t[2], t[3]>>)
        ELSE IF \E d \in 1..GridMax : Fits(s, <<0, 0, t[3] + d>>)
        THEN Advance(3, <<0, 0, t[3]>>)
        ELSE IF r[1] + 1 < 4 THEN RotatedTo(s, s2, <<r[1] + 1, r[2], r[3]>>)
        ELSE IF r[2] + 1 < 4 THEN RotatedTo(s, s2, <<0, r[2] + 1, r[3]>>)
        ELSE IF r[3] + 1 < 4 THEN RotatedTo(s, s2, <<0, 0, r[3] + 1>>)
        ELSE s2.rot_state = None /\ s2.trans_state = None

\* C29: the first state of the enumerator is the canonical placement at
\* rotation (0,0,0); each next state advances the X translation, else the Y
\* translation with X reset to 0, else the Z translation with Y reset to 0,
\* else the X rotation count with the translation reset and the offset
\* recomputed, else the Y rotation count with X reset to 0, else the Z
\* rotation count with Y reset to 0; every rotation count stays below 4.
C29_EnumerationOrder ==
    /\ []((pc = "enum" /\ produced = <<>>) =>
             /\ positions[1].rot_state = <<0, 0, 0>>
             /\ positions[1].trans_state = Coords3D(0, 0, 0)
             /\ positions[1].offset = CanonicalOffset(positions[1].piece))
    /\ [](Len(produced) >= 1 =>
             produced[1] = Piece5_translate(positions[1].piece,
                                            CanonicalOffset(positions[1].piece)))
    /\ []((pc = "enum" /\ positions[1].rot_state # None) =>
             \A k \in 1..3 : positions[1].rot_state[k] \in 0..3)
    /\ [][(pc = "enum" /\ produced' # produced) =>
             /\ produced' = Append(produced,
                                   PlacedAt(positions[1], positions[1].offset,
                                            positions[1].trans_state,
                                            positions[1].rot_state))
             /\ positions'[1].piece = positions[1].piece
             /\ OdometerStep(positions[1], positions'[1])]_vars

\* C29 witness: the enumerator of P1 has reached the rotation (0, 0, 1),
\* the first Z rotation, with X and Y rotation counts back at 0.
C29_Witness ==
    /\ pc = "enum"
    /\ positions[1].piece.name = "P1"
    /\ positions[1].rot_state = <<0, 0, 1>>
    /\ positions[1].trans_state = Coords3D(0, 0, 0)
    /\ Len(produced) > 16

\* C30: for every catalog piece the enumerator signals exhaustion after
\* finitely many advances; every advance after that signals exhaustion too;
\* and a next_pos call that hits exhaustion leaves the blocks and the beams
\* of the piece unchanged.
C30_ExhaustionTerminal ==
    /\ <>(i >= 1)
    /\ [][i >= 1 => i' = i + 1]_vars
    /\ [][i' > i => /\ step_ret' = <<"StopIteration">>
                    /\ new_piece'[1].blocks = new_piece[1].blocks
                    /\ new_piece'[1].beams = new_piece[1].beams]_vars

\* C30 witness: next_pos of P1 has raised StopIteration three times in a
\* row after the piece had been moved to a rotated position.
C30_Witness ==
    /\ i = 3
    /\ step_ret = <<"StopIteration">>
    /\ new_piece[1].name = "P1"
    /\ new_piece[1].blocks # get_pieces5[1].blocks
    /\ new_piece[1].iterator[1].trans_state = None

---------------------------------------------------------------------------
(* Properties of move_puzzle_piece and of the passes of the unmount solver *)

\* the lattice [0, solve_grid_dim - 1]^3
Lattice ==
    (0..(solve_grid_dim - 1)) \X (0..(solve_grid_dim - 1)) \X (0..(solve_grid_dim - 1))

\* piece k of the active list, put at the placement p, is inside the lattice
\* and shares no voxel with another active piece
FreeAt(p, k) ==
    /\ Cells(p) \subseteq Lattice
    /\ \A j \in DOMAIN puzzle : j # k => ~SharesVoxel(p, puzzle[j])

\* the directions move_puzzle_piece tries for piece k, in their order
TriedFor(k) ==
    IF puzzle[k].umount_trans_history = <<>> THEN movements
    ELSE SelectSeq(movements,
                   LAMBDA m : m # neg(SignVector(Last(puzzle[k].umount_trans_history))))

\* the indices in TriedFor(k) of the directions piece k can move one unit in
CanMoveIn(k) ==
    {d \in DOMAIN TriedFor(k) : FreeAt(Piece5_translate(puzzle[k], TriedFor(k)[d]), k)}

C32_StuckPassFrame ==
    (pc = "returned" /\ step_ret.piece_moved = None) =>
        /\ Arrangement(puzzle) = PreMove(0)
        /\ \A k \in DOMAIN puzzle : puzzle[k].umount_trans_history = <<>>

\* C32 witness: a pass has ended stuck after an earlier pass had moved a
\* piece, whose history was not empty when the stuck pass began.
C32_Witness ==
    /\ pc = "returned"
    /\ step_ret.piece_moved = None
    /\ Len(steps) >= 1
    /\ Len(puzzle) = 2
    /\ Arrangement(puzzle) # Arrangement(
           [k \in DOMAIN catalog |->
               Piece5_translate(catalog[k], Coords3D(shift, shift, shift))])

---------------------------------------------------------------------------
(* Conservation of the pieces in the mount and unmount solvers *)

Names(pieces) == [k \in DOMAIN pieces |-> pieces[k].name]

\* the list read from its last element (the top of a stack) to its first
Reversed(seq) == [k \in DOMAIN seq |-> seq[Len(seq) + 1 - k]]

\* C33: after every add_piece and every backtrack each piece of the catalog
\* is in exactly one of puzzle and unused_pieces, and the names of puzzle
\* followed by those of unused_pieces from top to bottom are always the
\* same sequence: the piece at depth k of puzzle is always the same piece.
C33_PlacementOrder ==
    pc # "add_piece" =>
        /\ Names(puzzle) \o Reversed(Names(unused_pieces)) = Reversed(Names(catalog))
        /\ Cardinality(PieceNames(puzzle) \cup PieceNames(unused_pieces))
               = Len(puzzle) + Len(unused_pieces)

\* C33 witness: in the run on get_pieces5 a backtrack has put a piece back
\* on the stack at a later position while three pieces stay placed.
C33_Witness ==
    /\ pc = "loop"
    /\ catalog = get_pieces5
    /\ Len(puzzle) >= 3
    /\ Len(unused_pieces) >= 1
    /\ Top(unused_pieces).iterator # None
    /\ Top(unused_pieces).blocks # CatalogPiece(Top(unused_pieces).name).blocks

\* seq2 is seq, or seq with one more element at its end
GrownByAtMostOne(seq, seq2) ==
    \/ seq2 = seq
    \/ Len(seq2) = Len(seq) + 1 /\ SubSeq(seq2, 1, Len(seq)) = seq

\* C34: at every point of umount_puzzle the active list and pieces_out are
\* disjoint and together hold exactly the pieces of the initial assembly,
\* each once; pieces_out changes only in the step that ends a turn of the
\* while loop (try_remove_piece) and then by one piece, and no piece ever
\* enters the active list: a removed piece is never active again.
C34_UmountConservation ==
    /\ [](/\ PieceNames(puzzle) \cap PieceNames(pieces_out) = {}
          /\ PieceNames(puzzle) \cup PieceNames(pieces_out) = PieceNames(catalog)
          /\ Len(puzzle) + Len(pieces_out) = Len(catalog))
    /\ [][/\ GrownByAtMostOne(Names(pieces_out), Names(pieces_out'))
          /\ pieces_out' # pieces_out => pc = "replay" /\ pc' = "umount"
          /\ PieceNames(puzzle') \subseteq PieceNames(puzzle)]_vars

\* C34 witness: in the run on the final assembly two pieces have been
\* removed and the pieces left have gone through a further move.
C34_Witness ==
    /\ catalog = get_result
    /\ Len(pieces_out) >= 2
    /\ Len(puzzle) >= 2
    /\ pc = "replay"

\* C36: frame of move_puzzle_piece: on return puzzle holds the same pieces
\* in the same order, no piece other than the argument has changed
\* position, and with a returned distance of 0 the argument is where it was.
C36_MoveFrame ==
    [][(pc = "step" /\ i <= Len(puzzle)) =>
          /\ Names(puzzle') = Names(puzzle)
          /\ \A k \in DOMAIN puzzle : k # i => Shown(puzzle'[k]) = Shown(puzzle[k])
          /\ step_ret'.trans_cnt = 0 => Shown(puzzle'[i]) = Shown(puzzle[i])]_vars

\* C36 witness: in a pass over the final assembly the calls on the first
\* pieces returned distance 0 and the call on a later piece has moved it.
C36_Witness ==
    /\ pc = "returned"
    /\ catalog = get_result
    /\ step_ret.piece_moved # None
    /\ step_ret.piece_moved[1] >= 2
    /\ step_ret.trans_cnt >= 1
    /\ Len(puzzle) >= 3

---------------------------------------------------------------------------
(* The coarse catalog of get_pieces and its conversion to the fine grid. *)

\* Piece.__init__
Piece(blocks, beams, name) == [name |-> name, blocks |-> blocks, beams |-> beams]

\* get_pieces: the list pieces of coarse Pieces, before the conversion
get_pieces_pieces ==
    <<Piece(piece1_blocks,
            <<Beam(Coords3D(0, 0, 1), Coords3D(3, 1, 0)),
              Beam(Coords3D(1, 1, 0), Coords3D(1, 0, 3))>>,
            "P1"),
      Piece(<<B3(0, 0, 0), B3(0, 0, 1), B3(2, 0, 0), B3(2, 0, 1)>>,
            <<Beam(Coords3D(0, 0, 1), Coords3D(3, 1, 0)),
              Beam(Coords3D(1, 0, 1), Coords3D(0, 1, 1)),
              Beam(Coords3D(0, 1, 0), Coords3D(1, 0, 3))>>,
            "P2"),
      Piece(<<B3(1, 0, 0), B3(2, 1, 0), B3(0, 0, 2), B3(1, 0, 2)>>,
            <<Beam(Coords3D(1, 0, 0), Coords3D(0, 1, 3)),
              Beam(Coords3D(0, 1, 0), Coords3D(3, 0, 1))>>,
            "P3"),
      Piece(<<B3(1, 0, 0), B3(0, 0, 2)>>,
            <<Beam(Coords3D(1, 0, 0), Coords3D(0, 1, 3)),
              Beam(Coords3D(0, 1, 2), Coords3D(3, 0, 1))>>,
            "P4"),
      Piece(<<B3(0, 0, 0), B3(1, 0, 0), B3(2, 1, 0), B3(1, 0, 2)>>,
            <<Beam(Coords3D(1, 0, 0), Coords3D(0, 1, 3)),
              Beam(Coords3D(0, 1, 0), Coords3D(3, 0, 1))>>,
            "P5"),
      Piece(<<B3(0, 1, 0), B3(2, 1, 0), B3(0, 0, 1)>>,
            <<Beam(Coords3D(0, 1, 0), Coords3D(3, 0, 1)),
              Beam(Coords3D(0, 0, 1), Coords3D(1, 3, 0))>>,
            "P6"),
      Piece(<<B3(0, 0, 0), B3(2, 0, 0), B3(2, 0, 1), B3(2, 1, 2)>>,
            <<Beam(Coords3D(0, 0, 1), Coords3D(3, 1, 0)),
              Beam(Coords3D(2, 0, 1), Coords3D(0, 1, 1)),
              Beam(Coords3D(2, 1, 0), Coords3D(1, 0, 3))>>,
            "P7"),
      Piece(<<B3(0, 0, 0), B3(0, 1, 0)>>,
            <<Beam(Coords3D(1, 0, 0), Coords3D(0, 3, 1)),
              Beam(Coords3D(0, 1, 0), Coords3D(1, 0, 3)),
              Beam(Coords3D(0, 1, 1), Coords3D(3, 1, 0))>>,
            "P8")>>

\* a list comprehension over calls that return or raise: the list of the
\* values, or the exception of the first call that raised
Comprehension(rs) ==
    IF \E k \in DOMAIN rs : rs[k].exc # "none"
    THEN rs[CHOOSE k \in DOMAIN rs :
                /\ rs[k].exc # "none"
                /\ \A j \in 1..(k - 1) : rs[j].exc = "none"]
    ELSE [exc |-> "none", value |-> [k \in DOMAIN rs |-> rs[k].value]]

\* return Piece5(blocks, beams, self.name)
Piece5Of(blocks, beams, name) ==
    IF beams.exc # "none" THEN beams
    ELSE IF blocks.exc # "none" THEN blocks
    ELSE [exc |-> "none", value |-> Piece5(blocks.value, beams.value, name)]

Piece_to_grid_5(self) ==
    Piece5Of(Comprehension([k \in DOMAIN self.blocks |-> Block_to_grid_5(self.blocks[k])]),
             Comprehension([k \in DOMAIN self.beams |-> Beam_to_grid_5(self.beams[k])]),
             self.name)

\* get_pieces: pieces5 = [p.to_grid_5() for p in pieces]
get_pieces ==
    Comprehension([k \in DOMAIN get_pieces_pieces |-> Piece_to_grid_5(get_pieces_pieces[k])])

\* the coarse pieces of get_pieces, and the pieces made of the first blocks
\* and the first beams of one of them
CoarseInputs ==
    UNION {{Piece(SubSeq(p.blocks, 1, nb), SubSeq(p.beams, 1, nm), p.name) :
               nb \in 1..Len(p.blocks), nm \in 0..Len(p.beams)} :
           p \in {get_pieces_pieces[k] : k \in DOMAIN get_pieces_pieces}}

PieceToGrid5Init ==
    /\ pc = "piece_to_grid_5"
    /\ new_piece \in {<<p>> : p \in CoarseInputs}
    /\ step_ret = None
    /\ catalog = <<>>
    /\ puzzle = <<>>
    /\ unused_pieces = <<>>
    /\ i = 0
    /\ positions = None
    /\ produced = <<>>
    /\ pieces_out = <<>>
    /\ steps = <<>>

\* p.to_grid_5()
PieceToGrid5Call ==
    /\ pc = "piece_to_grid_5"
    /\ step_ret' = Piece_to_grid_5(new_piece[1])
    /\ pc' = "piece_to_grid_5_ret"
    /\ UNCHANGED <<catalog, puzzle, unused_pieces, new_piece, i, positions,
                   produced, pieces_out, steps>>

PieceToGrid5Spec == PieceToGrid5Init /\ [][PieceToGrid5Call]_vars

---------------------------------------------------------------------------
(* The two catalogs *)

\* C35: for each of the 8 pieces, to_grid_5() of the coarse piece of
\* get_pieces has the same set of standalone block positions and the same
\* set of beam block positions as the piece of get_pieces5.
C35_CatalogsAgree ==
    pc = "piece_to_grid_5_ret" =>
        \A k \in DOMAIN get_pieces_pieces :
            new_piece[1] = get_pieces_pieces[k] =>
                /\ step_ret.exc = "none"
                /\ step_ret.value.name = get_pieces5[k].name
                /\ BlockCells(step_ret.value) = BlockCells(get_pieces5[k])
                /\ BeamCells(step_ret.value) = BeamCells(get_pieces5[k])

=============================================================================
